---- MODULE Spec2Model ----
(***************************************************************************)
(* Storage gateway: the WebDAV PUT / MKCOL handlers, the server-side       *)
(* multipart upload pipeline, the WebDAV lock check and the /api/fs route  *)
(* layer.  The repository holds four revisions of the WebDAV PUT handler;  *)
(* each one is modelled from its own source file and a request is served   *)
(* by one of them (req.impl):                                              *)
(*   "js"  backend/src/webdav/methods/put.js   (whole body in memory)      *)
(*   "p8"  unnamed/part_008                    (processStreamInChunks)     *)
(*   "p6"  unnamed/part_006                    (FileSystem + SDK Upload)   *)
(*   "p7"  unnamed/part_007                    (FileSystem + SDK Upload)   *)
(*   "mmu" unnamed/part_006 managedMultipartUpload, run on a session its   *)
(*         caller has opened                                               *)
(*   "mkcol" backend/src/webdav/methods/mkcol.js                           *)
(* Byte counts are in MiB (5 stands for 5 * 1024 * 1024).                  *)
(***************************************************************************)
EXTENDS Integers, Sequences, FiniteSets, TLC

VARIABLES
  locks,     \* LockManager table: the set of held locks
  store,     \* object store: key -> "absent" | "empty" | "data" | "dir" | "marker"
  mpu,       \* the multipart session of the request: none|open|completed|aborted
  req,       \* the request being served
  pc,        \* position of the handler
  h,         \* the handler's locals
  stream,    \* the request body stream
  resp,      \* HTTP status of the response (0: none yet)
  s3,        \* upstream calls issued for this request
  fsreq,     \* the /api/fs request being served and its outcome
  files,     \* the files table of the metadata store
  cache,     \* the directory-listing cache
  call,      \* the driver or /api/url call being served and its outcome
  apiKeys,   \* the api_keys table: key -> its record, or NoKey
  entry,   \* the entry points: initialisation flag and the requests in them
  up,      \* the client's multipart upload routine
  db,      \* the files table and the commits in progress
  modal    \* the upload dialog: its file items and its running uploads

vars == <<locks, store, mpu, req, pc, h, stream, resp, s3, fsreq, files, cache, call, apiKeys, entry, up, db, modal>>

-----------------------------------------------------------------------------
(* Bounds of the exploration *)
MaxBody == 11
MaxChunk == 2
MaxShort == 1
MaxLocks == 1
MaxFiles == 2
MaxLockBody == 2

(* Program constants *)
MULTIPART_THRESHOLD == 5
WINDOWS_CLIENT_MULTIPART_THRESHOLD == 1
MAX_RETRIES == 3
RETRY_DELAY_BASE == 1000
STREAMING_PART_SIZE == 7
UPLOAD_PART_SIZE_6 == 5

\* queueSize of the Upload of part_007 and of part_006
STREAMING_QUEUE_SIZE == 1
UPLOAD_QUEUE_SIZE_6 == 3
RecommendedPartSize == 5

NoCL == -1
NoToken == <<>>
D == <<"d">>
X == <<"d", "x">>
Paths == {D, X}
Users == {"u1", "u2"}
Impls == {"js", "p8", "p6", "p7", "mmu", "mkcol"}
Modes == {"unset", "direct", "multipart"}
Depths == {"0", "infinity"}

Min(a, b) == IF a < b THEN a ELSE b

RECURSIVE Pow2(_)
Pow2(n) == IF n <= 0 THEN 1 ELSE 2 * Pow2(n - 1)

\* Math.ceil(a / b) for b > 0
CeilDiv(a, b) == IF a <= 0 THEN 0 ELSE ((a + b - 1) \div b)

IsPrefix(p, q) == Len(p) <= Len(q) /\ SubSeq(q, 1, Len(p)) = p

TokenOf(p) == <<"opaquelocktoken", p>>
IfHeaders == {NoToken} \cup {TokenOf(p) : p \in Paths}

-----------------------------------------------------------------------------
(* LockManager *)

\* a lock covers path p: same path, or an ancestor locked with depth infinity
Covers(l, p) == l.path = p \/ (l.depth = "infinity" /\ IsPrefix(l.path, p))

\* two locks overlap: same path, or one is an ancestor of the other and the
\* ancestor's depth reaches it
Overlaps(l, p, depth) ==
  \/ Covers(l, p)
  \/ (depth = "infinity" /\ IsPrefix(p, l.path))

\* check(path, ifHeader, method): the conflict, if any
checkLockPermission(table, path, ifHeader, method) ==
  IF \E l \in table : Covers(l, path) /\ l.token # ifHeader
  THEN 423 ELSE 0

\* getLock(path): the locks the table holds for the path
getLock(table, path) == {l \in table : Covers(l, path)}

\* checkLockPermission(lockInfo, userId, userType): the lock's owner may write
checkLockPermissionOwner(lockInfo, userId) == lockInfo.owner = userId

DoLock(p, owner, depth) ==
  /\ pc = "idle"
  /\ Cardinality(locks) < MaxLocks
  /\ ~\E l \in locks : Overlaps(l, p, depth)
  /\ locks' = locks \cup {[token |-> TokenOf(p), path |-> p, depth |-> depth,
                           owner |-> owner, scope |-> "exclusive"]}
  /\ UNCHANGED <<store, mpu, req, pc, h, stream, resp, s3, fsreq, files, cache, call, apiKeys, entry, up, db, modal>>

DoUnlock(p, token) ==
  /\ pc = "idle"
  /\ \E l \in locks : l.path = p /\ l.token = token /\ locks' = locks \ {l}
  /\ UNCHANGED <<store, mpu, req, pc, h, stream, resp, s3, fsreq, files, cache, call, apiKeys, entry, up, db, modal>>

-----------------------------------------------------------------------------
(* Request, handler locals, upstream call record *)

NoReq == [impl |-> "none", path |-> X, ifToken |-> NoToken, user |-> "u1",
          cl |-> NoCL, chunked |-> FALSE, hasBody |-> FALSE, problematic |-> FALSE]

HInit == [uploadId |-> FALSE, partSize |-> 0, buffer |-> 0, partNumber |-> 1,
          parts |-> <<>>, totalProcessed |-> 0, attempt |-> 1, delays |-> <<>>,
          final |-> FALSE, route |-> "none", eof |-> FALSE, result |-> "none",
          body |-> 0, abortCalled |-> FALSE, mode |-> "none",
          consulted |-> FALSE, start |-> 0]

S3Init == [create |-> 0, abort |-> 0, complete |-> <<>>, puts |-> <<>>,
           parts |-> <<>>, sdk |-> <<>>, sdkState |-> "none", tries |-> 0,
           log |-> <<>>]

StreamInit == [left |-> 0, read |-> 0, locked |-> FALSE]

StoreInit == [k \in {"d/", "d/x", "d/y"} |-> "absent"]

\* the directories whose listing can be cached: the mount root and d
Dirs == {"/", "d/"}

\* a cache entry: "none", "fresh" (filled from the bucket as it is now) or
\* "stale" (filled before a mutation of the directory committed)
CacheInit == [k \in Dirs |-> "none"]

\* a mutation under the directories `ds` has committed
Staled(c, ds) == [k \in Dirs |-> IF k \in ds /\ c[k] # "none" THEN "stale" ELSE c[k]]

\* clearCache / clearDirectoryCache / clearCacheAfterWebDAVOperation: the
\* entries of the mount are dropped
clearCache(c) == CacheInit

\* the cache after a mutation under `ds`, followed or not by a clearing
\* that took effect
After(c, ds, cleared) == IF cleared THEN clearCache(Staled(c, ds)) ELSE Staled(c, ds)

\* the steps of a mutation in program order: "commit", "mtime", "invalidate"
Logged(rec, steps) == [rec EXCEPT !.log = @ \o steps]

\* what the services behind the handlers (multipartUploadService's
\* completeMultipartUpload, FileSystem.uploadFile) do on success: the object
\* is committed and the ancestors' modification times are updated
ServiceSteps == <<"commit", "mtime">>

\* finalizePutOperation: clearCacheAfterWebDAVOperation, its failure swallowed
finalizePutOperation(cleared) == IF cleared THEN <<"invalidate">> ELSE <<>>

\* clearDirectoryCache / clearCacheAfterWebDAVOperation called outside a
\* try block: a failure leaves the handler through its catch
clearDirectoryCache(cleared) == IF cleared THEN <<"invalidate">> ELSE <<>>

\* the API keys that can exist
ApiKeys == {"k1", "k2"}

\* the absence of an api_keys row
NoKey == [mount |-> FALSE, expires |-> "absent"]


\* the two entry points, the requests they can hold at a time, and what a
\* request is
Runtimes == {"workers", "docker"}
ReqIds == {1, 2}
Methods == {"OPTIONS", "GET", "PUT"}
NoEntryReq == [phase |-> "none", runtime |-> "workers", method |-> "GET",
               dav |-> FALSE, status |-> 0, headers |-> {}, initAt |-> "none"]
EntryInit == [isDbInitialized |-> [rt \in Runtimes |-> FALSE],
              init |-> [rt \in Runtimes |-> "none"],
              inits |-> [rt \in Runtimes |-> 0],
              reqs |-> [i \in ReqIds |-> NoEntryReq]]


\* the client routine before it is called: its locals, the session on the
\* server, and the abort requests it has sent
UpInit == [impl |-> "fs", phase |-> "idle", uploadId |-> FALSE, totalParts |-> 0,
           partNumber |-> 1, parts |-> {}, session |-> "none", aborts |-> 0,
           abortOk |-> FALSE, abortAfterComplete |-> FALSE, cancelled |-> FALSE,
           result |-> "none"]


\* the files table of one storage configuration, empty, and no commit
\* request under way
FileIds == {1, 2, 3}
NoRecord == [exists |-> FALSE, size |-> 0, committed |-> FALSE, via |-> "none"]
NoCommit == [phase |-> "none", size |-> 0]
DbInit == [records |-> [i \in FileIds |-> NoRecord],
           commits |-> [i \in FileIds |-> NoCommit]]


\* the upload dialog with its files selected and nothing started
MaxItems == 3
Items == 1..MaxItems
Loops == {1, 2}
NoLoop == [kind |-> "none", i |-> 0, aborted |-> FALSE]
ModalInit == [status |-> [i \in Items |-> "pending"],
              message |-> [i \in Items |-> ""],
              xhr |-> [i \in Items |-> 0],
              isUploading |-> FALSE,
              cancelUploadFlag |-> FALSE,
              loops |-> [l \in Loops |-> NoLoop]]

\* no driver or /api/url call in progress
CallIdle == [kind |-> "none", phase |-> "idle", status |-> 0, log |-> <<>>,
             old |-> "d/x", new |-> "d/y", content |-> "absent", existed |-> FALSE,
             limited |-> FALSE, limit |-> 0, usage |-> 0, size |-> 0,
             record |-> FALSE, abortOk |-> FALSE,
             head |-> 0, get |-> 0, webProxy |-> FALSE,
             preview |-> "none", download |-> "none",
             message |-> "none", errorId |-> FALSE,
             impl |-> "none", header |-> "", filename |-> "", type |-> "none",
             auth |-> [form |-> "none", username |-> "", password |-> "",
                       keyRecord |-> NoKey, result |-> "none"]]

\* the framing of a request: a chunked body has no Content-Length, a body
\* without either header is empty, and a declared length is met or (when the
\* connection breaks) undershot
Fits(imp, cl, chunked, hasBody, body) ==
  /\ chunked => cl = NoCL
  /\ (~chunked /\ cl = NoCL) => body = 0
  /\ (~chunked /\ cl # NoCL) => cl \in {body, body + 1}
  /\ ~hasBody => body = 0
  /\ body > 0 => hasBody
  /\ imp = "mmu" => hasBody
  /\ cl = body + 1 => body <= MaxShort

\* a request arrives; mmu is entered with the session its caller has opened
Receive(imp, ifTok, user, cl, chunked, hasBody, problematic, body) ==
  /\ pc = "idle"
  /\ problematic => imp \in {"js", "p8"}
  /\ Fits(imp, cl, chunked, hasBody, body)
  /\ req' = [impl |-> imp, path |-> IF imp = "mkcol" THEN D ELSE X,
             ifToken |-> ifTok, user |-> user, cl |-> cl, chunked |-> chunked,
             hasBody |-> hasBody, problematic |-> problematic]
  /\ stream' = [left |-> body, read |-> 0, locked |-> FALSE]
  /\ h' = [HInit EXCEPT !.uploadId = (imp = "mmu")]
  /\ s3' = [S3Init EXCEPT !.create = IF imp = "mmu" THEN 1 ELSE 0]
  /\ mpu' = IF imp = "mmu" THEN "open" ELSE "none"
  /\ resp' = 0
  /\ pc' = "recv"
  /\ UNCHANGED <<locks, store, fsreq, files, cache, call, apiKeys, entry, up, db, modal>>

\* the response has been sent; the server is ready for the next request
Finish ==
  /\ pc = "done"
  /\ pc' = "idle"
  /\ req' = NoReq
  /\ h' = HInit
  /\ s3' = S3Init
  /\ stream' = StreamInit
  /\ mpu' = "none"
  /\ resp' = 0
  /\ UNCHANGED <<locks, store, fsreq, files, cache, call, apiKeys, entry, up, db, modal>>

-----------------------------------------------------------------------------
(* Upstream primitives *)

\* checkDirectoryExists: the marker is there, or some key lies under it
checkDirectoryExists(st) == \E k \in DOMAIN st : st[k] # "absent"

\* the object a direct PutObject of `size` bytes leaves under the file's key
Stored(size) == IF size = 0 THEN "empty" ELSE "data"

\* the Content-Type the bucket returns for an object: the marker PUT
\* writes carries application/x-directory, a PutObject without ContentType
\* gets the store's default
ContentType(v) == IF v = "dir" THEN "application/x-directory" ELSE "binary/octet-stream"

\* the Content-Length the bucket returns for an object
ContentLength(v) == IF v = "data" THEN 1 ELSE 0

\* getFileInfo: HeadObject, directory or file by the Content-Type
getFileInfo(st, key) ==
  LET isDirectory == ContentType(st[key]) = "application/x-directory"
  IN [isDirectory |-> isDirectory,
      size |-> IF isDirectory THEN 0 ELSE ContentLength(st[key]),
      mimetype |-> ContentType(st[key])]

\* uploadPartWithRetry with one attempt more than MAX_RETRIES
uploadPartWithRetryFailed_OneMore(onThrow) ==
  /\ s3' = [s3 EXCEPT !.tries = @ + 1]
  /\ IF h.attempt < MAX_RETRIES + 1
     THEN /\ h' = [h EXCEPT !.attempt = @ + 1,
                            !.delays = Append(@, RETRY_DELAY_BASE * Pow2(h.attempt - 1))]
          /\ pc' = pc
     ELSE /\ h' = h
          /\ pc' = onThrow
  /\ UNCHANGED <<locks, store, mpu, req, stream, resp, fsreq, files, cache, call, apiKeys, entry, up, db, modal>>

\* one attempt of uploadPart failed inside uploadPartWithRetry: wait
\* RETRY_DELAY_BASE * 2^(attempt-1) and try again, or give up after
\* MAX_RETRIES attempts and throw to `onThrow`
uploadPartWithRetryFailed(onThrow) ==
  /\ s3' = [s3 EXCEPT !.tries = @ + 1]
  /\ IF h.attempt < MAX_RETRIES
     THEN /\ h' = [h EXCEPT !.attempt = @ + 1,
                            !.delays = Append(@, RETRY_DELAY_BASE * Pow2(h.attempt - 1))]
          /\ pc' = pc
     ELSE /\ h' = h
          /\ pc' = onThrow
  /\ UNCHANGED <<locks, store, mpu, req, stream, resp, fsreq, files, cache, call, apiKeys, entry, up, db, modal>>

-----------------------------------------------------------------------------
(* unnamed/part_008: handlePut with processStreamInChunks *)

\* handlePut up to the choice of the upload path
handlePut8 ==
  /\ pc = "recv" /\ req.impl = "p8"
  /\ LET declaredContentLength == IF req.cl # NoCL THEN req.cl ELSE -1
         emptyBodyCheck == declaredContentLength = 0
         parentExists == checkDirectoryExists(store)
         effectiveThreshold == IF req.problematic
                               THEN WINDOWS_CLIENT_MULTIPART_THRESHOLD
                               ELSE MULTIPART_THRESHOLD
     IN
     \E dirOk \in BOOLEAN :
       /\ parentExists => dirOk
       /\ store' = IF ~parentExists /\ dirOk THEN [store EXCEPT !["d/"] = "dir"] ELSE store
       /\ cache' = IF ~parentExists /\ dirOk THEN Staled(cache, {"/"}) ELSE cache
       /\ IF emptyBodyCheck
          THEN /\ pc' = "emptyput" /\ resp' = resp
               /\ h' = [h EXCEPT !.route = "empty"]
          ELSE IF ~req.hasBody
          THEN /\ pc' = "done" /\ resp' = 400
               /\ h' = [h EXCEPT !.route = "nobody", !.result = "err"]
          ELSE /\ pc' = "init" /\ resp' = resp
               /\ h' = [h EXCEPT !.route = "multipart",
                                 !.partSize = IF RecommendedPartSize # 0
                                              THEN RecommendedPartSize
                                              ELSE effectiveThreshold]
  /\ UNCHANGED <<locks, mpu, req, stream, s3, fsreq, files, call, apiKeys, entry, up, db, modal>>

\* the empty-file branch: one PutObject with an empty body, then 201
emptyPut8 ==
  /\ pc = "emptyput" /\ req.impl = "p8"
  /\ \/ \E cleared \in BOOLEAN :
          /\ store' = [store EXCEPT !["d/x"] = Stored(0)]
          /\ s3' = Logged([s3 EXCEPT !.puts = Append(@, 0)],
                          <<"commit">> \o finalizePutOperation(cleared))
          /\ cache' = After(cache, {"d/"}, cleared)
          /\ resp' = 201 /\ h' = [h EXCEPT !.result = "ok"]
     \/ /\ resp' = 500 /\ h' = [h EXCEPT !.result = "err"]
        /\ UNCHANGED <<store, s3, cache>>
  /\ pc' = "done"
  /\ UNCHANGED <<locks, mpu, req, stream, fsreq, files, call, apiKeys, entry, up, db, modal>>

\* initializeMultipartUpload: the session is opened, or the call throws
\* with uploadId still null
initializeMultipartUpload8 ==
  /\ pc = "init" /\ req.impl = "p8"
  /\ \/ /\ mpu' = "open"
        /\ s3' = [s3 EXCEPT !.create = @ + 1]
        /\ h' = [h EXCEPT !.uploadId = TRUE]
        /\ pc' = "read"
     \/ /\ pc' = "abort"
        /\ UNCHANGED <<mpu, s3, h>>
  /\ UNCHANGED <<locks, store, req, stream, resp, fsreq, files, cache, call, apiKeys, entry, up, db, modal>>

\* processStreamInChunks: one reader.read()
processStreamInChunksRead ==
  /\ pc = "read" /\ req.impl = "p8"
  /\ \/ \* a chunk arrives
        \E k \in 1..Min(MaxChunk, stream.left) :
          /\ stream' = [stream EXCEPT !.left = @ - k, !.read = @ + k]
          /\ h' = [h EXCEPT !.buffer = @ + k, !.totalProcessed = @ + k]
          /\ pc' = IF h.buffer + k >= h.partSize THEN "part" ELSE "read"
     \/ \* done
        /\ stream.left = 0
        /\ h' = [h EXCEPT !.eof = TRUE, !.final = (h.buffer > 0)]
        /\ pc' = IF h.buffer > 0 THEN "part" ELSE "complete"
        /\ UNCHANGED <<stream>>
     \/ \* the read rejects
        /\ pc' = "abort"
        /\ UNCHANGED <<stream, h>>
  /\ UNCHANGED <<locks, store, mpu, req, resp, s3, fsreq, files, cache, call, apiKeys, entry, up, db, modal>>

\* a chunker that uploads whatever the buffer holds as one part
processStreamInChunksPart_WholeBuffer ==
  /\ pc = "part" /\ req.impl = "p8"
  /\ \/ /\ LET part == [partNumber |-> h.partNumber,
                        off |-> stream.read - h.buffer, size |-> h.buffer]
           IN
           /\ s3' = [s3 EXCEPT !.parts = Append(@, part), !.tries = 0]
           /\ IF h.final
              THEN /\ h' = [h EXCEPT !.parts = Append(@, h.partNumber),
                                     !.totalProcessed = @ + h.buffer,
                                     !.attempt = 1, !.delays = <<>>]
                   /\ pc' = "complete"
              ELSE /\ h' = [h EXCEPT !.parts = Append(@, h.partNumber),
                                     !.buffer = 0,
                                     !.partNumber = @ + 1,
                                     !.attempt = 1, !.delays = <<>>]
                   /\ pc' = "read"
        /\ UNCHANGED <<locks, store, mpu, req, stream, resp, fsreq, files, cache, call, apiKeys, entry, up, db, modal>>
     \/ uploadPartWithRetryFailed("abort")

\* processStreamInChunks: upload of one part through uploadPartWithRetry
processStreamInChunksPart ==
  /\ pc = "part" /\ req.impl = "p8"
  /\ \/ /\ LET size == IF h.final THEN h.buffer ELSE h.partSize
               part == [partNumber |-> h.partNumber,
                        off |-> stream.read - h.buffer, size |-> size]
           IN
           /\ s3' = [s3 EXCEPT !.parts = Append(@, part), !.tries = 0]
           /\ IF h.final
              THEN /\ h' = [h EXCEPT !.parts = Append(@, h.partNumber),
                                     !.totalProcessed = @ + h.buffer,
                                     !.attempt = 1, !.delays = <<>>]
                   /\ pc' = "complete"
              ELSE /\ h' = [h EXCEPT !.parts = Append(@, h.partNumber),
                                     !.buffer = @ - h.partSize,
                                     !.partNumber = @ + 1,
                                     !.attempt = 1, !.delays = <<>>]
                   /\ pc' = IF h.buffer - h.partSize >= h.partSize THEN "part" ELSE "read"
        /\ UNCHANGED <<locks, store, mpu, req, stream, resp, fsreq, files, cache, call, apiKeys, entry, up, db, modal>>
     \/ uploadPartWithRetryFailed("abort")

\* completeMultipartUpload with the collected parts; the object store
\* rejects a completion without parts
completeMultipartUpload8 ==
  /\ pc = "complete" /\ req.impl = "p8"
  /\ \/ /\ h.parts # <<>>
        /\ mpu' = "completed"
        /\ store' = [store EXCEPT !["d/x"] = "data"]
        /\ \E cleared \in BOOLEAN :
             /\ s3' = Logged([s3 EXCEPT !.complete = Append(@, h.parts)],
                             ServiceSteps \o finalizePutOperation(cleared))
             /\ cache' = After(cache, {"d/"}, cleared)
        /\ resp' = 201 /\ h' = [h EXCEPT !.result = "ok"]
        /\ pc' = "done"
     \/ /\ h.parts = <<>>
        /\ s3' = [s3 EXCEPT !.complete = Append(@, h.parts)]
        /\ pc' = "abort"
        /\ UNCHANGED <<mpu, store, resp, h, cache>>
     \/ /\ h.parts # <<>>
        /\ s3' = [s3 EXCEPT !.complete = Append(@, h.parts)]
        /\ pc' = "abort"
        /\ UNCHANGED <<mpu, store, resp, h, cache>>
  /\ UNCHANGED <<locks, req, stream, fsreq, files, call, apiKeys, entry, up, db, modal>>

\* a catch block that rethrows without aborting the session
abortMultipartUpload8_Rethrow ==
  /\ pc = "abort" /\ req.impl = "p8"
  /\ resp' = 500
  /\ h' = [h EXCEPT !.result = "err"]
  /\ pc' = "done"
  /\ UNCHANGED <<locks, store, mpu, req, stream, s3, fsreq, files, cache, call, apiKeys, entry, up, db, modal>>

\* the catch block: abortMultipartUpload when uploadId is set (its own
\* failure is swallowed), rethrow, and the outer catch answers 500
abortMultipartUpload8 ==
  /\ pc = "abort" /\ req.impl = "p8"
  /\ IF h.uploadId
     THEN \/ /\ mpu' = "aborted"
             /\ s3' = [s3 EXCEPT !.abort = @ + 1]
          \/ /\ s3' = [s3 EXCEPT !.abort = @ + 1]
             /\ mpu' = mpu
     ELSE UNCHANGED <<mpu, s3>>
  /\ resp' = 500
  /\ h' = [h EXCEPT !.result = "err"]
  /\ pc' = "done"
  /\ UNCHANGED <<locks, store, req, stream, fsreq, files, cache, call, apiKeys, entry, up, db, modal>>

-----------------------------------------------------------------------------
(* backend/src/webdav/methods/put.js: handlePut reading the whole body *)

\* the part sizes the loop over totalParts will slice out of the body
JsPartSize(n, bytes, partSize) ==
  Min(n * partSize, bytes) - (n - 1) * partSize

\* handlePut up to the read of the body
handlePutJs ==
  /\ pc = "recv" /\ req.impl = "js"
  /\ LET parentExists == checkDirectoryExists(store)
     IN
     \E dirOk \in BOOLEAN :
       /\ parentExists => dirOk
       /\ store' = IF ~parentExists /\ dirOk THEN [store EXCEPT !["d/"] = "dir"] ELSE store
       /\ cache' = IF ~parentExists /\ dirOk THEN Staled(cache, {"/"}) ELSE cache
  /\ pc' = "readall"
  /\ UNCHANGED <<locks, mpu, req, h, stream, resp, s3, fsreq, files, call, apiKeys, entry, up, db, modal>>

\* c.req.arrayBuffer(), the integrity check and the choice between the
\* multipart and the plain upload
readBodyJs ==
  /\ pc = "readall" /\ req.impl = "js"
  /\ \/ /\ LET declaredContentLength == IF req.cl # NoCL THEN req.cl ELSE -1
               byteLength == stream.left
               effectiveThreshold == IF req.problematic
                                     THEN WINDOWS_CLIENT_MULTIPART_THRESHOLD
                                     ELSE MULTIPART_THRESHOLD
           IN
           /\ stream' = [stream EXCEPT !.left = 0, !.read = byteLength]
           /\ IF byteLength = 0 /\ declaredContentLength > 0 /\ req.problematic
              THEN /\ resp' = 400 /\ pc' = "done"
                   /\ h' = [h EXCEPT !.body = byteLength, !.result = "err"]
              ELSE IF byteLength > 0 /\ byteLength > effectiveThreshold
              THEN /\ resp' = resp /\ pc' = "init"
                   /\ h' = [h EXCEPT !.body = byteLength, !.route = "multipart",
                                     !.partSize = effectiveThreshold, !.eof = TRUE]
              ELSE /\ resp' = resp /\ pc' = "put"
                   /\ h' = [h EXCEPT !.body = byteLength, !.route = "direct", !.eof = TRUE]
     \/ /\ resp' = 500 /\ pc' = "done"
        /\ h' = [h EXCEPT !.result = "err"]
        /\ stream' = stream
  /\ UNCHANGED <<locks, store, mpu, req, s3, fsreq, files, cache, call, apiKeys, entry, up, db, modal>>

\* initializeMultipartUpload and the part size it recommends
initializeMultipartUploadJs ==
  /\ pc = "init" /\ req.impl = "js"
  /\ \/ /\ mpu' = "open"
        /\ s3' = [s3 EXCEPT !.create = @ + 1]
        /\ h' = [h EXCEPT !.uploadId = TRUE,
                          !.partSize = IF RecommendedPartSize # 0
                                       THEN RecommendedPartSize ELSE @]
        /\ pc' = "part"
     \/ /\ pc' = "abort"
        /\ UNCHANGED <<mpu, s3, h>>
  /\ UNCHANGED <<locks, store, req, stream, resp, fsreq, files, cache, call, apiKeys, entry, up, db, modal>>

\* one turn of the loop over partNumber = 1..totalParts: uploadPart, once
uploadPartJs ==
  /\ pc = "part" /\ req.impl = "js"
  /\ LET totalParts == CeilDiv(h.body, h.partSize)
         size == JsPartSize(h.partNumber, h.body, h.partSize)
         part == [partNumber |-> h.partNumber,
                  off |-> (h.partNumber - 1) * h.partSize, size |-> size]
     IN
     \/ /\ s3' = [s3 EXCEPT !.parts = Append(@, part), !.tries = 0]
        /\ h' = [h EXCEPT !.parts = Append(@, h.partNumber),
                          !.totalProcessed = @ + size,
                          !.partNumber = @ + 1]
        /\ pc' = IF h.partNumber = totalParts THEN "complete" ELSE "part"
     \/ /\ s3' = [s3 EXCEPT !.tries = @ + 1]
        /\ pc' = "abort"
        /\ h' = h
  /\ UNCHANGED <<locks, store, mpu, req, stream, resp, fsreq, files, cache, call, apiKeys, entry, up, db, modal>>

\* completeMultipartUpload; the handler then leaves the try block and
\* returns without a Response (resp stays 0)
completeMultipartUploadJs ==
  /\ pc = "complete" /\ req.impl = "js"
  /\ \/ /\ mpu' = "completed"
        /\ store' = [store EXCEPT !["d/x"] = "data"]
        /\ \E cleared \in BOOLEAN :
             /\ s3' = Logged([s3 EXCEPT !.complete = Append(@, h.parts)],
                             ServiceSteps \o finalizePutOperation(cleared))
             /\ cache' = After(cache, {"d/"}, cleared)
        /\ h' = [h EXCEPT !.result = "ok"]
        /\ pc' = "done"
     \/ /\ s3' = [s3 EXCEPT !.complete = Append(@, h.parts)]
        /\ pc' = "abort"
        /\ UNCHANGED <<mpu, store, h, cache>>
  /\ UNCHANGED <<locks, req, stream, resp, fsreq, files, call, apiKeys, entry, up, db, modal>>

\* the catch block: abort when uploadId is set, rethrow, 500
abortMultipartUploadJs ==
  /\ pc = "abort" /\ req.impl = "js"
  /\ IF h.uploadId
     THEN \/ /\ mpu' = "aborted"
             /\ s3' = [s3 EXCEPT !.abort = @ + 1]
          \/ /\ s3' = [s3 EXCEPT !.abort = @ + 1]
             /\ mpu' = mpu
     ELSE UNCHANGED <<mpu, s3>>
  /\ resp' = 500
  /\ h' = [h EXCEPT !.result = "err"]
  /\ pc' = "done"
  /\ UNCHANGED <<locks, store, req, stream, fsreq, files, cache, call, apiKeys, entry, up, db, modal>>

\* the plain upload: one PutObject of the whole body, then 201
putObjectJs ==
  /\ pc = "put" /\ req.impl = "js"
  /\ \/ \E cleared \in BOOLEAN :
          /\ store' = [store EXCEPT !["d/x"] = Stored(h.body)]
          /\ s3' = Logged([s3 EXCEPT !.puts = Append(@, h.body)],
                          <<"commit">> \o finalizePutOperation(cleared))
          /\ cache' = After(cache, {"d/"}, cleared)
          /\ resp' = 201 /\ h' = [h EXCEPT !.result = "ok"]
     \/ /\ resp' = 500 /\ h' = [h EXCEPT !.result = "err"]
        /\ UNCHANGED <<store, s3, cache>>
  /\ pc' = "done"
  /\ UNCHANGED <<locks, mpu, req, stream, fsreq, files, call, apiKeys, entry, up, db, modal>>

-----------------------------------------------------------------------------
(* @aws-sdk/lib-storage Upload, as trueStreamingUpload drives it *)

\* the parts Upload cuts a body of `total` bytes into: partSize each, the
\* last one carrying the rest; a body that fits one part goes out as a
\* single PutObject (no parts)
RECURSIVE SdkParts(_, _)
SdkParts(total, partSize) ==
  IF total <= partSize THEN IF total = 0 THEN <<>> ELSE <<total>>
  ELSE <<partSize>> \o SdkParts(total - partSize, partSize)

\* what trueStreamingUpload returns after upload.done()
SdkResult(contentLength, partSize) ==
  [totalProcessed |-> contentLength,
   partCount |-> IF CeilDiv(contentLength, partSize) # 0
                 THEN CeilDiv(contentLength, partSize) ELSE 1]

-----------------------------------------------------------------------------
(* unnamed/part_006: managedMultipartUpload *)

\* the streaming attempt inside managedMultipartUpload: Upload stores the
\* whole body, or fails having taken some of the stream (and possibly still
\* holding its reader), after which the buffered mode takes over
trueStreamingUploadMmu ==
  /\ pc = "recv" /\ req.impl = "mmu"
  /\ \/ /\ LET contentLength == IF req.cl = NoCL THEN 0 ELSE req.cl
               r == SdkResult(contentLength, UPLOAD_PART_SIZE_6)
           IN
           /\ h' = [h EXCEPT !.route = "sdk", !.totalProcessed = r.totalProcessed,
                             !.body = stream.left, !.result = "ok"]
           /\ s3' = Logged([s3 EXCEPT !.sdk = SdkParts(stream.left, UPLOAD_PART_SIZE_6),
                                      !.sdkState = "stored"], <<"commit">>)
        /\ store' = [store EXCEPT !["d/x"] = Stored(stream.left)]
        /\ stream' = [stream EXCEPT !.left = 0, !.read = stream.left]
        /\ pc' = "done"
     \/ /\ \E taken \in 0..stream.left, held \in BOOLEAN :
             /\ stream' = [left |-> stream.left - taken, read |-> taken, locked |-> held]
             /\ h' = [h EXCEPT !.route = "buffered", !.partSize = RecommendedPartSize,
                               !.start = taken]
        /\ s3' = [s3 EXCEPT !.sdkState = "failed"]
        /\ pc' = "read"
        /\ store' = store
  /\ UNCHANGED <<locks, mpu, req, resp, fsreq, files, cache, call, apiKeys, entry, up, db, modal>>

\* bufferedMultipartUpload: getReader and one reader.read()
bufferedMultipartUploadRead ==
  /\ pc = "read" /\ req.impl = "mmu"
  /\ \/ \* the stream is still locked by the failed attempt: getReader throws
        /\ stream.locked
        /\ pc' = "abort"
        /\ UNCHANGED <<stream, h>>
     \/ \* a chunk arrives
        /\ ~stream.locked
        /\ \E k \in 1..Min(MaxChunk, stream.left) :
             /\ stream' = [stream EXCEPT !.left = @ - k, !.read = @ + k]
             /\ h' = [h EXCEPT !.buffer = @ + k]
             /\ pc' = IF h.buffer + k >= h.partSize THEN "part" ELSE "read"
     \/ \* done
        /\ ~stream.locked
        /\ stream.left = 0
        /\ h' = [h EXCEPT !.eof = TRUE, !.final = (h.buffer > 0)]
        /\ pc' = IF h.buffer > 0 THEN "part"
                 ELSE IF h.parts = <<>> /\ h.totalProcessed = 0 THEN "zeroabort"
                 ELSE "complete"
        /\ UNCHANGED <<stream>>
     \/ \* the read rejects
        /\ ~stream.locked
        /\ pc' = "abort"
        /\ UNCHANGED <<stream, h>>
  /\ UNCHANGED <<locks, store, mpu, req, resp, s3, fsreq, files, cache, call, apiKeys, entry, up, db, modal>>

\* a buffered mode that never advances partNumber
bufferedMultipartUploadPart_SameNumber ==
  /\ pc = "part" /\ req.impl = "mmu"
  /\ \/ /\ LET size == IF h.final THEN h.buffer ELSE h.partSize
               part == [partNumber |-> h.partNumber,
                        off |-> stream.read - h.buffer, size |-> size]
           IN
           /\ s3' = [s3 EXCEPT !.parts = Append(@, part), !.tries = 0]
           /\ IF h.final
              THEN /\ h' = [h EXCEPT !.parts = Append(@, h.partNumber),
                                     !.totalProcessed = @ + h.buffer,
                                     !.attempt = 1, !.delays = <<>>]
                   /\ pc' = "complete"
              ELSE /\ h' = [h EXCEPT !.parts = Append(@, h.partNumber),
                                     !.totalProcessed = @ + h.partSize,
                                     !.buffer = @ - h.partSize,
                                     !.attempt = 1, !.delays = <<>>]
                   /\ pc' = IF h.buffer - h.partSize >= h.partSize THEN "part" ELSE "read"
        /\ UNCHANGED <<locks, store, mpu, req, stream, resp, fsreq, files, cache, call, apiKeys, entry, up, db, modal>>
     \/ uploadPartWithRetryFailed("abort")

\* bufferedMultipartUpload: upload of one part through uploadPartWithRetry
bufferedMultipartUploadPart ==
  /\ pc = "part" /\ req.impl = "mmu"
  /\ \/ /\ LET size == IF h.final THEN h.buffer ELSE h.partSize
               part == [partNumber |-> h.partNumber,
                        off |-> stream.read - h.buffer, size |-> size]
           IN
           /\ s3' = [s3 EXCEPT !.parts = Append(@, part), !.tries = 0]
           /\ IF h.final
              THEN /\ h' = [h EXCEPT !.parts = Append(@, h.partNumber),
                                     !.totalProcessed = @ + h.buffer,
                                     !.attempt = 1, !.delays = <<>>]
                   /\ pc' = "complete"
              ELSE /\ h' = [h EXCEPT !.parts = Append(@, h.partNumber),
                                     !.totalProcessed = @ + h.partSize,
                                     !.buffer = @ - h.partSize,
                                     !.partNumber = @ + 1,
                                     !.attempt = 1, !.delays = <<>>]
                   /\ pc' = IF h.buffer - h.partSize >= h.partSize THEN "part" ELSE "read"
        /\ UNCHANGED <<locks, store, mpu, req, stream, resp, fsreq, files, cache, call, apiKeys, entry, up, db, modal>>
     \/ uploadPartWithRetryFailed("abort")

\* the zero-byte case: abortBackendMultipartUpload, its failure swallowed
abortZeroMmu ==
  /\ pc = "zeroabort" /\ req.impl = "mmu"
  /\ s3' = [s3 EXCEPT !.abort = @ + 1]
  /\ \/ /\ mpu' = "aborted"
     \/ /\ mpu' = mpu
  /\ pc' = "zeroput"
  /\ UNCHANGED <<locks, store, req, h, stream, resp, fsreq, files, cache, call, apiKeys, entry, up, db, modal>>

\* the zero-byte case: the empty file goes up through uploadFile
uploadEmptyMmu ==
  /\ pc = "zeroput" /\ req.impl = "mmu"
  /\ \/ /\ store' = [store EXCEPT !["d/x"] = Stored(0)]
        /\ s3' = Logged([s3 EXCEPT !.puts = Append(@, 0)], ServiceSteps)
        /\ h' = [h EXCEPT !.result = "ok", !.totalProcessed = 0]
        /\ pc' = "done"
     \/ /\ pc' = "abort"
        /\ UNCHANGED <<store, s3, h>>
  /\ UNCHANGED <<locks, mpu, req, stream, resp, fsreq, files, cache, call, apiKeys, entry, up, db, modal>>

\* completeBackendMultipartUpload with the parts of the buffered mode
completeMmu ==
  /\ pc = "complete" /\ req.impl = "mmu"
  /\ \/ /\ mpu' = "completed"
        /\ store' = [store EXCEPT !["d/x"] = "data"]
        /\ s3' = Logged([s3 EXCEPT !.complete = Append(@, h.parts)], ServiceSteps)
        /\ h' = [h EXCEPT !.result = "ok"]
        /\ pc' = "done"
     \/ /\ s3' = [s3 EXCEPT !.complete = Append(@, h.parts)]
        /\ pc' = "abort"
        /\ UNCHANGED <<mpu, store, h>>
  /\ UNCHANGED <<locks, req, stream, resp, fsreq, files, cache, call, apiKeys, entry, up, db, modal>>

\* the catch block: abort unless abortCalled, then rethrow
abortMmu ==
  /\ pc = "abort" /\ req.impl = "mmu"
  /\ IF ~h.abortCalled
     THEN /\ s3' = [s3 EXCEPT !.abort = @ + 1]
          /\ \/ /\ mpu' = IF mpu = "completed" THEN mpu ELSE "aborted"
             \/ /\ mpu' = mpu
     ELSE UNCHANGED <<s3, mpu>>
  /\ h' = [h EXCEPT !.abortCalled = TRUE, !.result = "err"]
  /\ pc' = "done"
  /\ UNCHANGED <<locks, store, req, stream, resp, fsreq, files, cache, call, apiKeys, entry, up, db, modal>>

-----------------------------------------------------------------------------
(* unnamed/part_006: handlePut *)

\* handlePut from the lock check to the choice of the upload path; `mode`
\* is the webdav_upload_mode the settings table holds
handlePut6(mode) ==
  /\ pc = "recv" /\ req.impl = "p6"
  /\ LET lockConflict == checkLockPermission(locks, req.path, req.ifToken, "PUT")
         declaredContentLength == IF req.cl # NoCL THEN req.cl
                                  ELSE IF req.chunked THEN -1 ELSE 0
         emptyBodyCheck == IF req.cl # NoCL THEN req.cl = 0
                           ELSE IF req.chunked THEN FALSE ELSE TRUE
         webdavUploadMode == IF mode = "unset" THEN "direct" ELSE mode
         shouldUseDirect == webdavUploadMode = "direct"
     IN
     IF lockConflict # 0
     THEN /\ resp' = lockConflict /\ pc' = "done"
          /\ h' = [h EXCEPT !.consulted = TRUE, !.route = "locked", !.result = "err"]
     ELSE IF emptyBodyCheck
     THEN /\ resp' = resp /\ pc' = "emptyput"
          /\ h' = [h EXCEPT !.consulted = TRUE, !.route = "empty", !.mode = webdavUploadMode]
     ELSE IF ~req.hasBody
     THEN /\ resp' = 400 /\ pc' = "done"
          /\ h' = [h EXCEPT !.consulted = TRUE, !.route = "nobody", !.result = "err", !.mode = webdavUploadMode]
     ELSE /\ resp' = resp
          /\ pc' = IF shouldUseDirect THEN "directread" ELSE "sdk"
          /\ h' = [h EXCEPT !.consulted = TRUE, !.route = IF shouldUseDirect THEN "direct" ELSE "multipart",
                            !.mode = webdavUploadMode,
                            !.totalProcessed = 0,
                            !.partSize = UPLOAD_PART_SIZE_6,
                            !.body = declaredContentLength]
  /\ UNCHANGED <<locks, store, mpu, req, stream, s3, fsreq, files, cache, call, apiKeys, entry, up, db, modal>>

-----------------------------------------------------------------------------
(* unnamed/part_007: handlePut *)

\* handlePut from the settings read to the choice of the upload path
handlePut7(mode) ==
  /\ pc = "recv" /\ req.impl = "p7"
  /\ LET uploadMode == IF mode = "unset" THEN "multipart" ELSE mode
         lockInfo == getLock(locks, req.path)
         denied == \E l \in lockInfo : ~checkLockPermissionOwner(l, req.user)
         declaredContentLength == IF req.cl # NoCL THEN req.cl ELSE 0
     IN
     IF denied
     THEN /\ resp' = 423 /\ pc' = "done"
          /\ h' = [h EXCEPT !.consulted = TRUE, !.route = "locked", !.result = "err", !.mode = uploadMode]
     ELSE IF ~req.hasBody
     THEN /\ resp' = 500 /\ pc' = "done"
          /\ h' = [h EXCEPT !.consulted = TRUE, !.route = "nobody", !.result = "err", !.mode = uploadMode]
     ELSE IF declaredContentLength = 0
     THEN /\ resp' = resp /\ pc' = "emptyput"
          /\ h' = [h EXCEPT !.consulted = TRUE, !.route = "empty", !.mode = uploadMode]
     ELSE /\ resp' = resp
          /\ pc' = IF uploadMode = "direct" THEN "directread" ELSE "sdk"
          /\ h' = [h EXCEPT !.consulted = TRUE, !.route = IF uploadMode = "direct" THEN "direct" ELSE "multipart",
                            !.mode = uploadMode,
                            !.partSize = STREAMING_PART_SIZE,
                            !.body = declaredContentLength]
  /\ UNCHANGED <<locks, store, mpu, req, stream, s3, fsreq, files, cache, call, apiKeys, entry, up, db, modal>>

-----------------------------------------------------------------------------
(* unnamed/part_006 and part_007: the upload paths behind the choice *)

\* the empty file: fileSystem.uploadFile with useMultipart false, then 201
uploadEmptyFile ==
  /\ pc = "emptyput" /\ req.impl \in {"p6", "p7"}
  /\ \/ \E cleared \in BOOLEAN :
          /\ store' = [store EXCEPT !["d/x"] = Stored(0)]
          /\ s3' = Logged([s3 EXCEPT !.puts = Append(@, 0)],
                          ServiceSteps \o clearDirectoryCache(cleared))
          /\ cache' = After(cache, {"d/"}, cleared)
          /\ resp' = (IF cleared THEN 201 ELSE 500)
          /\ h' = [h EXCEPT !.result = IF cleared THEN "ok" ELSE "err"]
     \/ /\ resp' = 500 /\ h' = [h EXCEPT !.result = "err"]
        /\ UNCHANGED <<store, s3, cache>>
  /\ pc' = "done"
  /\ UNCHANGED <<locks, mpu, req, stream, fsreq, files, call, apiKeys, entry, up, db, modal>>

\* direct mode: the read loop that collects the whole body in memory
readAllDirect ==
  /\ pc = "directread" /\ req.impl \in {"p6", "p7"}
  /\ \/ /\ stream' = [stream EXCEPT !.left = 0, !.read = @ + stream.left]
        /\ h' = [h EXCEPT !.buffer = stream.left]
        /\ pc' = "directput" /\ resp' = resp
     \/ /\ resp' = 500 /\ pc' = "done"
        /\ h' = [h EXCEPT !.result = "err"]
        /\ stream' = stream
  /\ UNCHANGED <<locks, store, mpu, req, s3, fsreq, files, cache, call, apiKeys, entry, up, db, modal>>

\* direct mode: fileSystem.uploadFile of the collected bytes, then 201
uploadFileDirect ==
  /\ pc = "directput" /\ req.impl \in {"p6", "p7"}
  /\ \/ \E cleared \in BOOLEAN :
          /\ store' = [store EXCEPT !["d/x"] = Stored(h.buffer)]
          /\ s3' = Logged([s3 EXCEPT !.puts = Append(@, h.buffer)],
                          ServiceSteps \o clearDirectoryCache(cleared))
          /\ cache' = After(cache, {"d/"}, cleared)
          /\ resp' = (IF cleared THEN 201 ELSE 500)
          /\ h' = [h EXCEPT !.result = IF cleared THEN "ok" ELSE "err"]
     \/ /\ resp' = 500 /\ h' = [h EXCEPT !.result = "err"]
        /\ UNCHANGED <<store, s3, cache>>
  /\ pc' = "done"
  /\ UNCHANGED <<locks, mpu, req, stream, fsreq, files, call, apiKeys, entry, up, db, modal>>

\* multipart mode: trueStreamingUpload hands the stream to Upload, which
\* stores the body in parts of h.partSize or fails (cleaning up its parts)
trueStreamingUpload ==
  /\ pc = "sdk" /\ req.impl \in {"p6", "p7"}
  /\ \/ \E cleared \in BOOLEAN :
          /\ LET r == SdkResult(h.body, h.partSize)
             IN h' = [h EXCEPT !.totalProcessed = r.totalProcessed,
                               !.result = IF cleared THEN "ok" ELSE "err"]
          /\ s3' = Logged([s3 EXCEPT !.sdk = SdkParts(stream.left, h.partSize),
                                     !.sdkState = "stored"],
                          <<"commit">> \o clearDirectoryCache(cleared))
          /\ cache' = After(cache, {"d/"}, cleared)
          /\ store' = [store EXCEPT !["d/x"] = Stored(stream.left)]
          /\ stream' = [stream EXCEPT !.left = 0, !.read = stream.left]
          /\ resp' = (IF cleared THEN 201 ELSE 500)
     \/ /\ \E taken \in 0..stream.left :
             stream' = [stream EXCEPT !.left = @ - taken, !.read = taken, !.locked = TRUE]
        /\ s3' = [s3 EXCEPT !.sdkState = "failed"]
        /\ h' = [h EXCEPT !.result = "err"]
        /\ resp' = 500
        /\ store' = store
        /\ cache' = cache
  /\ pc' = "done"
  /\ UNCHANGED <<locks, mpu, req, fsreq, files, call, apiKeys, entry, up, db, modal>>



-----------------------------------------------------------------------------
(* The entry points: part_005 (Workers) and backend/docker-server.js *)

\* WEBDAV_METHODS.join(",")
WEBDAV_METHODS == "GET,HEAD,PUT,POST,DELETE,OPTIONS,PROPFIND,PROPPATCH,MKCOL,COPY,MOVE,LOCK,UNLOCK"

EntryFrame ==
  UNCHANGED <<locks, store, mpu, req, pc, h, stream, resp, s3, fsreq, files,
              cache, call, apiKeys, up, db, modal>>

\* the answer of the Workers fetch to an OPTIONS request
workersOptions(dav) ==
  IF dav
  THEN [status |-> 204,
        headers |-> {<<"Access-Control-Allow-Methods", WEBDAV_METHODS>>,
                     <<"Access-Control-Allow-Origin", "*">>,
                     <<"Allow", WEBDAV_METHODS>>,
                     <<"DAV", "1,2">>,
                     <<"MS-Author-Via", "DAV">>}]
  ELSE [status |-> 204,
        headers |-> {<<"Access-Control-Allow-Methods", "GET, HEAD, PUT, POST, DELETE, OPTIONS">>,
                     <<"Access-Control-Allow-Origin", "*">>}]

\* the answer of the Express server to an OPTIONS request: the cors
\* middleware with optionsSuccessStatus 204, or for /dav the middleware
\* after it that ends an OPTIONS request with 204
dockerOptions(dav, preflight) ==
  IF preflight
  THEN [status |-> 204,
        headers |-> {<<"Access-Control-Allow-Methods", WEBDAV_METHODS>>,
                     <<"Access-Control-Allow-Origin", "*">>}]
  ELSE [status |-> 204,
        headers |-> {<<"Access-Control-Allow-Methods", WEBDAV_METHODS>>,
                     <<"Access-Control-Allow-Origin", "*">>,
                     <<"Allow", WEBDAV_METHODS>>}]

\* the request goes on: to its OPTIONS answer in the Workers fetch, to the
\* application otherwise
Routed(r, initAt) ==
  IF r.runtime = "workers" /\ r.method = "OPTIONS"
  THEN [r EXCEPT !.phase = "answered", !.status = workersOptions(r.dav).status,
                 !.headers = workersOptions(r.dav).headers, !.initAt = initAt]
  ELSE [r EXCEPT !.phase = "dispatched", !.initAt = initAt]

\* a request enters the part of the entry point that looks at
\* isDbInitialized: the first one sets the flag and awaits the
\* initialisation, the others go on
Enter(i, r) ==
  LET rt == r.runtime
  IN IF ~entry.isDbInitialized[rt]
     THEN entry' = [entry EXCEPT !.isDbInitialized[rt] = TRUE,
                                 !.init[rt] = "running",
                                 !.inits[rt] = @ + 1,
                                 !.reqs[i] = [r EXCEPT !.phase = "initwait"]]
     ELSE entry' = [entry EXCEPT !.reqs[i] = Routed(r, entry.init[rt])]

\* Workers: fetch(request, env, ctx)
fetch ==
  /\ \E i \in ReqIds, method \in Methods, dav \in BOOLEAN :
       /\ entry.reqs[i].phase = "none"
       /\ Enter(i, [NoEntryReq EXCEPT !.runtime = "workers", !.method = method,
                                      !.dav = dav])
  /\ EntryFrame

\* Express: the middlewares in the order they are registered; an OPTIONS
\* request is answered before the initialisation middleware
dockerRequest ==
  /\ \E i \in ReqIds, method \in Methods, dav \in BOOLEAN, preflight \in BOOLEAN :
       LET r == [NoEntryReq EXCEPT !.runtime = "docker", !.method = method, !.dav = dav]
           answer == dockerOptions(dav, preflight)
       IN
       /\ entry.reqs[i].phase = "none"
       /\ IF method = "OPTIONS" /\ (preflight \/ dav)
          THEN entry' = [entry EXCEPT !.reqs[i] =
                           [r EXCEPT !.phase = "answered", !.status = answer.status,
                                     !.headers = answer.headers,
                                     !.initAt = entry.init["docker"]]]
          ELSE Enter(i, r)
  /\ EntryFrame

\* checkAndInitDatabase returns or throws; the request that awaited it goes on
checkAndInitDatabase ==
  /\ \E rt \in Runtimes, ok \in BOOLEAN :
       LET outcome == IF ok THEN "done" ELSE "failed"
       IN
       /\ entry.init[rt] = "running"
       /\ entry' = [entry EXCEPT
                      !.init[rt] = outcome,
                      !.reqs = [i \in ReqIds |->
                                  IF entry.reqs[i].phase = "initwait"
                                     /\ entry.reqs[i].runtime = rt
                                  THEN Routed(entry.reqs[i], outcome)
                                  ELSE entry.reqs[i]]]
  /\ EntryFrame

\* the response of a request has been sent
entryDone ==
  /\ \E i \in ReqIds :
       /\ entry.reqs[i].phase \in {"answered", "dispatched"}
       /\ entry' = [entry EXCEPT !.reqs[i] = NoEntryReq]
  /\ EntryFrame


-----------------------------------------------------------------------------
(* The client's multipart upload: frontend/src/api/fsService.js ("fs") and
   part_002 ("p2") *)

ClientImpls == {"fs", "p2"}
MaxFileSize == 5
recommendedPartSize == 2
InitOutcomes == {"ok", "failed", "lost"}
CompleteOutcomes == {"ok", "failed", "lost"}

UpFrame ==
  UNCHANGED <<locks, store, mpu, req, pc, h, stream, resp, s3, fsreq, files,
              cache, call, apiKeys, entry, db, modal>>

\* Math.ceil(file.size / recommendedPartSize)
ceilDiv(a, b) == (a + b - 1) \div b

\* performMultipartUpload up to the loop: initUpload answers, fails, or
\* creates the session and its answer is lost
performMultipartUpload ==
  /\ up.phase = "idle"
  /\ \E impl \in ClientImpls, size \in 0..MaxFileSize, outcome \in InitOutcomes :
       up' = [up EXCEPT !.impl = impl,
                        !.uploadId = (outcome = "ok"),
                        !.session = IF outcome = "failed" THEN "none" ELSE "open",
                        !.totalParts = ceilDiv(size, recommendedPartSize),
                        !.phase = IF outcome = "ok" THEN "loop" ELSE "catch"]
  /\ UpFrame

\* one turn of the loop over the parts: the cancel check, then uploadPart
uploadPartStep ==
  /\ up.phase = "loop"
  /\ up.partNumber <= up.totalParts
  /\ \E cancel \in BOOLEAN, ok \in BOOLEAN :
       up' = IF cancel
             THEN [up EXCEPT !.cancelled = TRUE, !.phase = "cancelAbort"]
             ELSE IF ok
             THEN [up EXCEPT !.parts = @ \cup {up.partNumber}, !.partNumber = @ + 1]
             ELSE [up EXCEPT !.phase = IF up.impl = "p2" THEN "partAbort" ELSE "catch"]
  /\ UpFrame

\* completeUpload after the loop; S3 completes no session without parts
completeUpload ==
  /\ up.phase = "loop"
  /\ up.partNumber > up.totalParts
  /\ \E outcome \in CompleteOutcomes :
       /\ up.totalParts = 0 => outcome = "failed"
       /\ up' = [up EXCEPT !.session = IF outcome = "failed" THEN @ ELSE "completed",
                           !.result = IF outcome = "ok" THEN "ok" ELSE @,
                           !.phase = IF outcome = "ok" THEN "returned" ELSE "catch"]
  /\ UpFrame

\* mutant: the catch block rethrows without aborting
catchError_NoAbort ==
  /\ up.phase = "catch"
  /\ up' = [up EXCEPT !.phase = "returned", !.result = "thrown"]
  /\ UpFrame

\* catch (error): without an uploadId the error is rethrown at once
catchError ==
  /\ up.phase = "catch"
  /\ up' = IF up.uploadId
           THEN [up EXCEPT !.phase = "catchAbort"]
           ELSE [up EXCEPT !.phase = "returned", !.result = "thrown"]
  /\ UpFrame

\* abortUpload, from the cancel check, from the catch around uploadPart
\* (p2), or from the outer catch; whatever it answers the error goes on
abortUpload ==
  /\ up.phase \in {"cancelAbort", "partAbort", "catchAbort"}
  /\ \E ok \in BOOLEAN :
       up' = [up EXCEPT !.aborts = @ + 1,
                        !.abortOk = ok,
                        !.abortAfterComplete = @ \/ (up.session = "completed"),
                        !.session = IF ok /\ @ = "open" THEN "aborted" ELSE @,
                        !.phase = IF up.phase = "catchAbort" THEN "returned" ELSE "catch",
                        !.result = IF up.phase = "catchAbort" THEN "thrown" ELSE @]
  /\ UpFrame

\* the caller has the result; the routine can be called again
uploadReturned ==
  /\ up.phase = "returned"
  /\ up' = UpInit
  /\ UpFrame


-----------------------------------------------------------------------------
(* The capacity of a storage configuration: routes/urlUploadRoutes.js and
   the file repository of part_010 *)

\* s3Config.total_storage_bytes of the one configuration
total_storage_bytes == 100
\* the sizes a client declares
DeclaredSizes == {0, 40, 60}

DbFrame ==
  UNCHANGED <<locks, store, mpu, req, pc, h, stream, resp, s3, fsreq, files,
              cache, call, apiKeys, entry, up, modal>>

RECURSIVE TotalSize(_, _)
TotalSize(records, ids) ==
  IF ids = {} THEN 0
  ELSE LET i == CHOOSE x \in ids : TRUE
       IN (IF records[i].exists THEN records[i].size ELSE 0)
            + TotalSize(records, ids \ {i})

\* SELECT COALESCE(SUM(size), 0) FROM files WHERE s3_config_id = ? AND id != ?
getTotalSizeByS3ConfigExcludingFile(records, excludeFileId) ==
  TotalSize(records, FileIds \ {excludeFileId})

\* POST /api/url/presign: prepareUrlUpload inserts the record of the file
\* to be uploaded, with the size the metadata of the URL gave or none
urlPresign ==
  /\ \E i \in FileIds, size \in DeclaredSizes :
       /\ ~db.records[i].exists
       /\ db' = [db EXCEPT !.records[i] = [exists |-> TRUE, size |-> size,
                                           committed |-> FALSE, via |-> "url"]]
  /\ DbFrame

\* POST /api/url/commit up to the capacity check: the usage of the other
\* records is read and body.size added to it; above the limit the record
\* is deleted and the answer is 400
urlCommitCheck ==
  /\ \E i \in FileIds, size \in DeclaredSizes :
       LET currentUsage == getTotalSizeByS3ConfigExcludingFile(db.records, i)
           totalAfterCommit == currentUsage + size
       IN
       /\ db.records[i].exists /\ db.records[i].via = "url"
       /\ db.commits[i].phase = "none"
       /\ db' = IF totalAfterCommit > total_storage_bytes
                THEN [db EXCEPT !.records[i] = NoRecord]
                ELSE [db EXCEPT !.commits[i] = [phase |-> "checked", size |-> size]]
  /\ DbFrame

\* POST /api/url/commit after the check: updateFile, with size when
\* body.size was given
urlCommitUpdate ==
  /\ \E i \in FileIds :
       /\ db.commits[i].phase = "checked"
       /\ db' = [db EXCEPT !.commits[i] = NoCommit,
                           !.records[i] =
                              IF ~db.records[i].exists THEN @
                              ELSE [@ EXCEPT !.committed = TRUE,
                                             !.size = IF db.commits[i].size # 0
                                                      THEN db.commits[i].size ELSE @]]
  /\ DbFrame

\* POST /api/fs/presign/commit: INSERT INTO files with body.fileSize
fsPresignCommitRecord ==
  /\ \E i \in FileIds, fileSize \in DeclaredSizes :
       /\ ~db.records[i].exists
       /\ db' = [db EXCEPT !.records[i] = [exists |-> TRUE, size |-> fileSize,
                                           committed |-> TRUE, via |-> "presign"]]
  /\ DbFrame

\* a file is deleted
deleteById ==
  /\ \E i \in FileIds :
       /\ db.records[i].exists /\ db.commits[i].phase = "none"
       /\ db' = [db EXCEPT !.records[i] = NoRecord]
  /\ DbFrame


-----------------------------------------------------------------------------
(* The upload dialog: frontend/src/components/mount-explorer/UploadModal.vue *)

ModalFrame ==
  UNCHANGED <<locks, store, mpu, req, pc, h, stream, resp, s3, fsreq, files,
              cache, call, apiKeys, entry, up, db>>

\* the finally block of submitUpload and of retryUpload
uploadFinally(m, l) ==
  [m EXCEPT !.isUploading = \E i \in Items : m.status[i] = "uploading",
            !.loops[l] = NoLoop]

\* the loop of submitUpload from index i up to its next await: the cancel
\* flag ends it, finished and failed items are skipped, the next item is
\* set to uploading and its upload started (hasXhr: the upload hands out
\* its XMLHttpRequest)
RECURSIVE submitLoop(_, _, _, _)
submitLoop(m, l, i, hasXhr) ==
  IF i > MaxItems \/ m.cancelUploadFlag THEN uploadFinally(m, l)
  ELSE IF m.status[i] \in {"success", "error"} THEN submitLoop(m, l, i + 1, hasXhr)
  ELSE [m EXCEPT !.status[i] = "uploading",
                 !.xhr[i] = IF hasXhr THEN l ELSE @,
                 !.loops[l] = [kind |-> "submit", i |-> i, aborted |-> FALSE]]

\* what the handler does with the outcome of the upload it awaited
settled(m, i, outcome) ==
  IF outcome = "success"
  THEN IF m.status[i] = "error" THEN m
       ELSE [m EXCEPT !.status[i] = "success"]
  ELSE IF m.status[i] = "error" /\ m.message[i] = "cancelled" THEN m
       ELSE [m EXCEPT !.status[i] = "error", !.message[i] = "failed"]

\* the outcomes an upload under way can have: it answers or it throws (a
\* failure, or the cancel check of a multipart upload); an aborted
\* request can only throw
Outcomes(m, l) ==
  IF m.loops[l].aborted THEN {"thrown"} ELSE {"success", "thrown"}

\* user events are handled once the continuations of aborted requests
\* have run
Quiet == \A l \in Loops : ~modal.loops[l].aborted

\* submitUpload, up to the first await
submitUpload ==
  /\ Quiet
  /\ ~modal.isUploading
  /\ \E i \in Items : modal.status[i] # "success"
  /\ \E l \in Loops, hasXhr \in BOOLEAN :
       /\ modal.loops[l].kind = "none"
       /\ LET reset == [modal EXCEPT
                          !.status = [i \in Items |->
                                        IF @[i] # "success" THEN "pending" ELSE @[i]],
                          !.message = [i \in Items |->
                                        IF modal.status[i] # "success" THEN "" ELSE @[i]],
                          !.xhr = [i \in Items |->
                                        IF modal.status[i] # "success" THEN 0 ELSE @[i]],
                          !.isUploading = TRUE,
                          !.cancelUploadFlag = FALSE]
          IN modal' = submitLoop(reset, l, 1, hasXhr)
  /\ ModalFrame

\* the upload awaited by the loop of submitUpload settles; the loop runs
\* on to its next await or to its end
submitUploadResume ==
  /\ \E l \in Loops, hasXhr \in BOOLEAN :
       /\ modal.loops[l].kind = "submit"
       /\ \E outcome \in Outcomes(modal, l) :
            modal' = submitLoop(settled([modal EXCEPT !.loops[l].aborted = FALSE],
                                        modal.loops[l].i, outcome),
                                l, modal.loops[l].i + 1, hasXhr)
  /\ ModalFrame

\* retryUpload(index), up to its await
retryUpload ==
  /\ Quiet
  /\ ~modal.isUploading
  /\ \E index \in Items, l \in Loops, hasXhr \in BOOLEAN :
       /\ modal.status[index] = "error"
       /\ modal.loops[l].kind = "none"
       /\ modal' = [modal EXCEPT !.status[index] = "uploading",
                                 !.message[index] = "",
                                 !.isUploading = TRUE,
                                 !.xhr[index] = IF hasXhr THEN l ELSE 0,
                                 !.cancelUploadFlag = FALSE,
                                 !.loops[l] = [kind |-> "retry", i |-> index,
                                               aborted |-> FALSE]]
  /\ ModalFrame

\* the upload awaited by retryUpload settles
retryUploadResume ==
  /\ \E l \in Loops :
       /\ modal.loops[l].kind = "retry"
       /\ \E outcome \in Outcomes(modal, l) :
            modal' = uploadFinally(settled([modal EXCEPT !.loops[l].aborted = FALSE],
                                           modal.loops[l].i, outcome), l)
  /\ ModalFrame

\* fileItem.xhr.abort(): the request of the loop that registered it rejects
xhrAbort(m, i) ==
  IF m.xhr[i] # 0 /\ m.loops[m.xhr[i]].kind # "none" /\ m.loops[m.xhr[i]].i = i
  THEN [m EXCEPT !.loops[m.xhr[i]].aborted = TRUE]
  ELSE m

\* cancelSingleUpload(index)
cancelSingleUpload ==
  /\ Quiet
  /\ \E index \in Items :
       /\ modal.status[index] = "uploading"
       /\ LET m == [xhrAbort(modal, index) EXCEPT !.xhr[index] = 0,
                                                  !.status[index] = "error",
                                                  !.message[index] = "cancelled"]
              hasActiveUploads == \E i \in Items : m.status[i] = "uploading"
              hasPendingUploads == \E i \in Items : m.status[i] = "pending"
          IN modal' = IF ~hasActiveUploads /\ ~hasPendingUploads
                      THEN [m EXCEPT !.isUploading = FALSE]
                      ELSE m
  /\ ModalFrame

RECURSIVE cancelItems(_, _)
cancelItems(m, i) ==
  IF i > MaxItems THEN m
  ELSE IF m.status[i] \in {"uploading", "pending"}
  THEN cancelItems([xhrAbort(m, i) EXCEPT !.status[i] = "error",
                                          !.message[i] = "cancelled"], i + 1)
  ELSE cancelItems(m, i + 1)

\* cancelUpload: cancel all
cancelUpload ==
  /\ Quiet
  /\ modal.isUploading
  /\ modal' = [cancelItems([modal EXCEPT !.cancelUploadFlag = TRUE], 1)
                 EXCEPT !.isUploading = FALSE]
  /\ ModalFrame

\* the dialog is closed and opened again with files selected
modalReset ==
  /\ Quiet
  /\ \A l \in Loops : modal.loops[l].kind = "none"
  /\ modal # ModalInit
  /\ modal' = ModalInit
  /\ ModalFrame

-----------------------------------------------------------------------------
(* Memory held by a PUT *)

\* the bytes of the request body the handler holds: the ArrayBuffer of
\* c.req.arrayBuffer() in put.js, the chunks and buffers of the others
Resident == IF req.impl = "js" THEN h.body ELSE h.buffer

\* queueSize x partSize of the revision; the handlers that upload their
\* parts one after the other hold one part
MemoryBound(imp) ==
  CASE imp = "p6" -> UPLOAD_QUEUE_SIZE_6 * UPLOAD_PART_SIZE_6
    [] imp = "p7" -> STREAMING_QUEUE_SIZE * STREAMING_PART_SIZE
    [] OTHER -> MULTIPART_THRESHOLD

-----------------------------------------------------------------------------
(* backend/src/webdav/methods/mkcol.js *)


\* handleMkcol without the test of dirExists
handleMkcol_Recreate ==
  /\ pc = "recv" /\ req.impl = "mkcol"
  /\ LET bodyLength == stream.left
     IN
     IF bodyLength > 0
     THEN /\ resp' = 415 /\ pc' = "done"
          /\ h' = [h EXCEPT !.result = "err"]
     ELSE /\ resp' = resp /\ pc' = "put" /\ h' = h
  /\ stream' = [stream EXCEPT !.left = 0, !.read = stream.left]
  /\ UNCHANGED <<locks, store, mpu, req, s3, fsreq, files, cache, call, apiKeys, entry, up, db, modal>>

\* handleMkcol without the test of the request body
handleMkcol_AcceptBody ==
  /\ pc = "recv" /\ req.impl = "mkcol"
  /\ LET dirExists == checkDirectoryExists(store)
     IN
     IF dirExists
     THEN /\ resp' = 405 /\ pc' = "done"
          /\ h' = [h EXCEPT !.result = "err"]
     ELSE /\ resp' = resp /\ pc' = "put" /\ h' = h
  /\ stream' = [stream EXCEPT !.left = 0, !.read = stream.left]
  /\ UNCHANGED <<locks, store, mpu, req, s3, fsreq, files, cache, call, apiKeys, entry, up, db, modal>>

\* handleMkcol up to the PutObject of the directory marker
handleMkcol ==
  /\ pc = "recv" /\ req.impl = "mkcol"
  /\ LET bodyLength == stream.left
         dirExists == checkDirectoryExists(store)
     IN
     IF bodyLength > 0
     THEN /\ resp' = 415 /\ pc' = "done"
          /\ h' = [h EXCEPT !.result = "err"]
     ELSE IF dirExists
     THEN /\ resp' = 405 /\ pc' = "done"
          /\ h' = [h EXCEPT !.result = "err"]
     ELSE /\ resp' = resp /\ pc' = "put" /\ h' = h
  /\ stream' = [stream EXCEPT !.left = 0, !.read = stream.left]
  /\ UNCHANGED <<locks, store, mpu, req, s3, fsreq, files, cache, call, apiKeys, entry, up, db, modal>>

\* the directory marker: an empty object whose key ends in "/", then 201
putMarkerMkcol ==
  /\ pc = "put" /\ req.impl = "mkcol"
  /\ \/ \E cleared \in BOOLEAN :
          /\ store' = [store EXCEPT !["d/"] = "marker"]
          /\ s3' = Logged([s3 EXCEPT !.puts = Append(@, 0)],
                          <<"commit">> \o clearDirectoryCache(cleared))
          /\ cache' = After(cache, {"/", "d/"}, cleared)
          /\ resp' = (IF cleared THEN 201 ELSE 500)
          /\ h' = [h EXCEPT !.result = IF cleared THEN "ok" ELSE "err"]
     \/ /\ resp' = 500 /\ h' = [h EXCEPT !.result = "err"]
        /\ UNCHANGED <<store, s3, cache>>
  /\ pc' = "done"
  /\ UNCHANGED <<locks, mpu, req, stream, fsreq, files, call, apiKeys, entry, up, db, modal>>

-----------------------------------------------------------------------------
(* backend/src/routes/urlUploadRoutes.js: the /api/fs routes *)

TeamA == <<"team-a">>
TeamB == <<"team-b">>
FsPaths == {TeamA, TeamA \o <<"x">>, TeamB, TeamB \o <<"x">>}

\* userInfo as unifiedFsAuthMiddleware sets it: the admin, or an API key
\* with its basicPath
UserInfos ==
  {[type |-> "admin", hasFullAccess |-> TRUE, basicPath |-> <<>>]} \cup
  {[type |-> "apiKey", hasFullAccess |-> FALSE, basicPath |-> b] : b \in {<<>>, TeamA}}

FsIdle == [phase |-> "idle", userInfo |-> CHOOSE u \in UserInfos : u.hasFullAccess,
           op |-> "none", paths |-> <<>>, status |-> 0, touched |-> {},
           succeeded |-> <<>>, failed |-> <<>>]

\* apiKeyService.checkPathPermissionForOperation: the path lies under basicPath
checkPathPermissionForOperation(basicPath, path) == IsPrefix(basicPath, path)

\* the route layer's checkPathPermission helper
checkPathPermission(userInfo, path) ==
  \/ userInfo.hasFullAccess
  \/ checkPathPermissionForOperation(userInfo.basicPath, path)

\* the permission check the fsService functions and the multipart
\* controller make on the paths they are handed
serviceAllows(userInfo, paths) ==
  \A i \in 1..Len(paths) : checkPathPermission(userInfo, paths[i])

\* the response leaves; `touched` are the paths whose storage or metadata
\* the request reached
Respond(userInfo, op, paths, status, touched) ==
  /\ fsreq.phase = "idle"
  /\ fsreq' = [phase |-> "done", userInfo |-> userInfo, op |-> op, paths |-> paths,
               status |-> status, touched |-> touched,
               succeeded |-> <<>>, failed |-> <<>>]
  /\ UNCHANGED <<locks, store, mpu, req, pc, h, stream, resp, s3, call, apiKeys, entry, up, db, modal>>

\* a route without a check of its own: the service decides
Delegated(userInfo, op, paths) ==
  /\ IF serviceAllows(userInfo, paths)
     THEN Respond(userInfo, op, paths, 200, {paths[i] : i \in 1..Len(paths)})
     ELSE Respond(userInfo, op, paths, 403, {})
  /\ files' = files
  /\ cache' = cache

\* a route that calls checkPathPermission on each path before the service
Checked(userInfo, op, paths) ==
  /\ IF \E i \in 1..Len(paths) : ~checkPathPermission(userInfo, paths[i])
     THEN Respond(userInfo, op, paths, 403, {})
     ELSE IF serviceAllows(userInfo, paths)
     THEN Respond(userInfo, op, paths, 200, {paths[i] : i \in 1..Len(paths)})
     ELSE Respond(userInfo, op, paths, 403, {})
  /\ files' = files
  /\ cache' = cache

MultipartActions == {"multipart-init", "multipart-part", "multipart-complete",
                     "multipart-abort"}

\* GET /api/fs/list
fsList ==
  /\ fsreq.phase = "idle"
  /\ \E u \in UserInfos, p \in FsPaths : Delegated(u, "list", <<p>>)

\* GET /api/fs/get
fsGet ==
  /\ fsreq.phase = "idle"
  /\ \E u \in UserInfos, p \in FsPaths : Delegated(u, "get", <<p>>)

\* GET /api/fs/download
fsDownload ==
  /\ fsreq.phase = "idle"
  /\ \E u \in UserInfos, p \in FsPaths : Delegated(u, "download", <<p>>)

\* POST /api/fs/mkdir
fsMkdir ==
  /\ fsreq.phase = "idle"
  /\ \E u \in UserInfos, p \in FsPaths : Checked(u, "mkdir", <<p>>)

\* POST /api/fs/upload
fsUpload ==
  /\ fsreq.phase = "idle"
  /\ \E u \in UserInfos, p \in FsPaths : Checked(u, "upload", <<p>>)

\* DELETE /api/fs/remove
fsRemove ==
  /\ fsreq.phase = "idle"
  /\ \E u \in UserInfos, p \in FsPaths : Checked(u, "remove", <<p>>)

\* POST /api/fs/rename: oldPath and newPath
fsRename ==
  /\ fsreq.phase = "idle"
  /\ \E u \in UserInfos, p \in FsPaths, q \in FsPaths : Checked(u, "rename", <<p, q>>)

\* the paths of a sequence
Range(seq) == {seq[i] : i \in 1..Len(seq)}

\* a batch removal that gives up at the first path whose removal fails
batchRemoveItems_StopAtFirst(paths, failing) ==
  LET bad == {i \in 1..Len(paths) : paths[i] \in failing}
      last == IF bad = {} THEN Len(paths)
              ELSE CHOOSE i \in bad : \A j \in bad : i <= j
      tried == SubSeq(paths, 1, last)
  IN [succeeded |-> SelectSeq(tried, LAMBDA p : p \notin failing),
      failed |-> SelectSeq(tried, LAMBDA p : p \in failing),
      attempted |-> Range(tried)]

\* fsService.batchRemoveItems: every path is attempted in turn; a path whose
\* removal fails goes to failed[] with its reason, the others to succeeded[]
batchRemoveItems(paths, failing) ==
  [succeeded |-> SelectSeq(paths, LAMBDA p : p \notin failing),
   failed |-> SelectSeq(paths, LAMBDA p : p \in failing),
   attempted |-> Range(paths)]

\* POST /api/fs/batch-remove: the paths array is checked path by path, then
\* handed to batchRemoveItems, whose result is the data of the answer
fsBatchRemove ==
  /\ fsreq.phase = "idle"
  /\ \E u \in UserInfos, p \in FsPaths, q \in FsPaths :
     \E failing \in SUBSET {p, q}, thrown \in BOOLEAN :
       LET paths == <<p, q>>
           result == batchRemoveItems(paths, failing)
       IN
       IF \E i \in 1..Len(paths) : ~checkPathPermission(u, paths[i])
       THEN Respond(u, "batch-remove", paths, 403, {})
       ELSE IF ~serviceAllows(u, paths)
       THEN Respond(u, "batch-remove", paths, 403, {})
       ELSE IF thrown
       THEN Respond(u, "batch-remove", paths, 500, {})
       ELSE /\ fsreq.phase = "idle"
            /\ fsreq' = [phase |-> "done", userInfo |-> u, op |-> "batch-remove",
                         paths |-> paths, status |-> 200,
                         touched |-> result.attempted,
                         succeeded |-> result.succeeded, failed |-> result.failed]
            /\ UNCHANGED <<locks, store, mpu, req, pc, h, stream, resp, s3, call, apiKeys, entry, up, db, modal>>
  /\ files' = files
  /\ cache' = cache

\* POST /api/fs/multipart/init, part, complete, abort
fsMultipart ==
  /\ fsreq.phase = "idle"
  /\ \E u \in UserInfos, a \in MultipartActions, p \in FsPaths : Delegated(u, a, <<p>>)

\* POST /api/fs/presign
fsPresign ==
  /\ fsreq.phase = "idle"
  /\ \E u \in UserInfos, p \in FsPaths : Checked(u, "presign", <<p>>)

\* GET /api/fs/file-link
fsFileLink ==
  /\ fsreq.phase = "idle"
  /\ \E u \in UserInfos, p \in FsPaths : Delegated(u, "file-link", <<p>>)

\* POST /api/fs/update
fsUpdate ==
  /\ fsreq.phase = "idle"
  /\ \E u \in UserInfos, p \in FsPaths : Checked(u, "update", <<p>>)

\* POST /api/fs/batch-copy: sourcePath and targetPath of an item
fsBatchCopy ==
  /\ fsreq.phase = "idle"
  /\ \E u \in UserInfos, p \in FsPaths, q \in FsPaths :
       Checked(u, "batch-copy", <<p, q>>)

\* POST /api/fs/presign/commit: the body's targetPath goes into the files
\* table as it stands
fsPresignCommit ==
  /\ fsreq.phase = "idle"
  /\ Cardinality(files) < MaxFiles
  /\ \E u \in UserInfos, targetPath \in FsPaths, cleared \in BOOLEAN :
       /\ files' = files \cup {[path |-> targetPath, createdBy |-> u]}
       /\ cache' = IF cleared THEN clearCache(cache) ELSE cache
       /\ Respond(u, "presign-commit", <<targetPath>>, 200, {targetPath})

\* the response has been sent
FsFinish ==
  /\ fsreq.phase = "done"
  /\ fsreq' = FsIdle
  /\ UNCHANGED <<locks, store, mpu, req, pc, h, stream, resp, s3, files, cache, call, apiKeys, entry, up, db, modal>>

-----------------------------------------------------------------------------
Init ==
  /\ locks = {}
  /\ store = StoreInit
  /\ mpu = "none"
  /\ req = NoReq
  /\ pc = "idle"
  /\ h = HInit
  /\ stream = StreamInit
  /\ resp = 0
  /\ s3 = S3Init
  /\ fsreq = FsIdle
  /\ files = {}
  /\ cache = CacheInit
  /\ call = CallIdle
  /\ apiKeys = [k \in ApiKeys |-> NoKey]
  /\ entry = EntryInit
  /\ up = UpInit
  /\ db = DbInit
  /\ modal = ModalInit

ReceiveUpload ==
  /\ pc = "idle"
  /\ \E imp \in Impls, cl \in {NoCL} \cup (0..MaxBody + 1), chunked \in BOOLEAN,
        hasBody \in BOOLEAN, problematic \in BOOLEAN, body \in 0..MaxBody :
       Receive(imp, NoToken, "u1", cl, chunked, hasBody, problematic, body)

Next ==
  \/ ReceiveUpload
  \/ handlePut8
  \/ emptyPut8
  \/ initializeMultipartUpload8
  \/ processStreamInChunksRead
  \/ processStreamInChunksPart
  \/ completeMultipartUpload8
  \/ abortMultipartUpload8
  \/ handlePutJs
  \/ readBodyJs
  \/ initializeMultipartUploadJs
  \/ uploadPartJs
  \/ completeMultipartUploadJs
  \/ abortMultipartUploadJs
  \/ putObjectJs
  \/ trueStreamingUploadMmu
  \/ bufferedMultipartUploadRead
  \/ bufferedMultipartUploadPart
  \/ abortZeroMmu
  \/ uploadEmptyMmu
  \/ completeMmu
  \/ abortMmu
  \/ \E mode \in Modes : handlePut6(mode)
  \/ \E mode \in Modes : handlePut7(mode)
  \/ uploadEmptyFile
  \/ readAllDirect
  \/ uploadFileDirect
  \/ trueStreamingUpload
  \/ handleMkcol
  \/ putMarkerMkcol
  \/ Finish

Spec == Init /\ [][Next]_vars

-----------------------------------------------------------------------------
(* The WebDAV handlers next to LOCK and UNLOCK *)

ReceiveLocked ==
  /\ pc = "idle"
  /\ \E imp \in Impls \ {"mmu"}, ifTok \in IfHeaders, user \in Users,
        problematic \in BOOLEAN, body \in 0..MaxLockBody :
       Receive(imp, ifTok, user, body, FALSE, TRUE, problematic, body)

Lock == \E p \in Paths, owner \in Users, depth \in Depths : DoLock(p, owner, depth)

Unlock == \E p \in Paths, token \in IfHeaders : DoUnlock(p, token)

Handlers ==
  \/ handlePut8
  \/ emptyPut8
  \/ initializeMultipartUpload8
  \/ processStreamInChunksRead
  \/ processStreamInChunksPart
  \/ completeMultipartUpload8
  \/ abortMultipartUpload8
  \/ handlePutJs
  \/ readBodyJs
  \/ initializeMultipartUploadJs
  \/ uploadPartJs
  \/ completeMultipartUploadJs
  \/ abortMultipartUploadJs
  \/ putObjectJs
  \/ \E mode \in Modes : handlePut6(mode)
  \/ \E mode \in Modes : handlePut7(mode)
  \/ uploadEmptyFile
  \/ readAllDirect
  \/ uploadFileDirect
  \/ trueStreamingUpload
  \/ handleMkcol
  \/ putMarkerMkcol

NextLock ==
  \/ Lock
  \/ Unlock
  \/ ReceiveLocked
  \/ Handlers
  \/ Finish

SpecLock == Init /\ [][NextLock]_vars

-----------------------------------------------------------------------------
(* The streaming handlers on the large bodies of the acceptance example *)

ExampleBody == 8 * MULTIPART_THRESHOLD + 2

ReceiveExample ==
  /\ pc = "idle"
  /\ \E imp \in {"p8", "p6", "p7"}, body \in {ExampleBody - 2, ExampleBody} :
       Receive(imp, NoToken, "u1", body, FALSE, TRUE, FALSE, body)

NextExample ==
  \/ ReceiveExample
  \/ handlePut8
  \/ initializeMultipartUpload8
  \/ processStreamInChunksRead
  \/ processStreamInChunksPart
  \/ completeMultipartUpload8
  \/ abortMultipartUpload8
  \/ \E mode \in Modes : handlePut6(mode)
  \/ \E mode \in Modes : handlePut7(mode)
  \/ readAllDirect
  \/ uploadFileDirect
  \/ trueStreamingUpload
  \/ Finish

SpecExample == Init /\ [][NextExample]_vars

-----------------------------------------------------------------------------
(* The /api/fs routes on their own *)

NextFs ==
  \/ fsList
  \/ fsGet
  \/ fsDownload
  \/ fsMkdir
  \/ fsUpload
  \/ fsRemove
  \/ fsRename
  \/ fsBatchRemove
  \/ fsMultipart
  \/ fsPresign
  \/ fsPresignCommit
  \/ fsFileLink
  \/ fsUpdate
  \/ fsBatchCopy
  \/ FsFinish

SpecFs == Init /\ [][NextFs]_vars

-----------------------------------------------------------------------------
(* Directory listings next to the WebDAV handlers *)

\* list(dir): DirectoryCache is consulted; on a miss the bucket is listed
\* and the listing is put into the cache
List ==
  /\ pc = "idle"
  /\ \E k \in Dirs :
       /\ cache[k] = "none"
       /\ cache' = [cache EXCEPT ![k] = "fresh"]
  /\ UNCHANGED <<locks, store, mpu, req, pc, h, stream, resp, s3, fsreq, files, call, apiKeys, entry, up, db, modal>>

\* an entry reaches its TTL
Expire ==
  /\ pc = "idle"
  /\ \E k \in Dirs :
       /\ cache[k] # "none"
       /\ cache' = [cache EXCEPT ![k] = "none"]
  /\ UNCHANGED <<locks, store, mpu, req, pc, h, stream, resp, s3, fsreq, files, call, apiKeys, entry, up, db, modal>>

NextCache ==
  \/ Next
  \/ List
  \/ Expire

SpecCache == Init /\ [][NextCache]_vars

-----------------------------------------------------------------------------
(* backend/src/storage/drivers/s3/operations/S3FileOperations.js *)

Keys == {"d/x", "d/y"}

\* the frame of a driver or /api/url call
CallFrame == UNCHANGED <<locks, mpu, req, pc, h, stream, resp, s3, fsreq, files, apiKeys, entry, up, db, modal>>

\* updateFile: PutObject of the new content, then the ancestors'
\* modification times; a failure of either leaves through handleFsError
updateFile ==
  /\ call.phase = "idle"
  /\ \E key \in Keys, content \in {"empty", "data"} :
       \/ /\ store' = [store EXCEPT ![key] = content]
          /\ \E touched \in BOOLEAN :
               call' = [CallIdle EXCEPT !.kind = "update", !.phase = "done", !.new = key,
                          !.status = IF touched THEN 200 ELSE 500,
                          !.log = IF touched THEN <<"commit", "mtime">> ELSE <<"commit">>]
          /\ cache' = Staled(cache, {"d/"})
       \/ /\ call' = [CallIdle EXCEPT !.kind = "update", !.phase = "done", !.new = key,
                                      !.status = 500]
          /\ UNCHANGED <<store, cache>>
  /\ CallFrame

\* a rename that does not look at the target before copying
renameFile_Overwrite ==
  /\ call.phase = "idle"
  /\ \E old \in Keys, new \in Keys, headFails \in BOOLEAN :
       LET c == [CallIdle EXCEPT !.kind = "rename", !.old = old, !.new = new,
                                 !.content = store[old],
                                 !.existed = (store[new] # "absent")]
       IN
       call' = IF store[old] = "absent" THEN [c EXCEPT !.phase = "done", !.status = 500]
               ELSE IF headFails THEN [c EXCEPT !.phase = "done", !.status = 500]
               ELSE [c EXCEPT !.phase = "copy"]
  /\ UNCHANGED <<store, cache>>
  /\ CallFrame

\* renameFile: HEAD of the source, HEAD of the target
renameFile ==
  /\ call.phase = "idle"
  /\ \E old \in Keys, new \in Keys, headFails \in BOOLEAN :
       LET c == [CallIdle EXCEPT !.kind = "rename", !.old = old, !.new = new,
                                 !.content = store[old],
                                 !.existed = (store[new] # "absent")]
       IN
       call' = IF store[old] = "absent" THEN [c EXCEPT !.phase = "done", !.status = 500]
               ELSE IF store[new] # "absent" THEN [c EXCEPT !.phase = "done", !.status = 409]
               ELSE IF headFails THEN [c EXCEPT !.phase = "done", !.status = 500]
               ELSE [c EXCEPT !.phase = "copy"]
  /\ UNCHANGED <<store, cache>>
  /\ CallFrame

\* a rename that deletes the source whether or not the copy went through
renameFileCopy_DeleteAnyway ==
  /\ call.phase = "copy" /\ call.kind = "rename"
  /\ \/ /\ store' = [store EXCEPT ![call.new] = store[call.old]]
        /\ call' = [call EXCEPT !.phase = "delete", !.log = Append(@, "copy")]
     \/ /\ call' = [call EXCEPT !.phase = "delete"]
        /\ store' = store
  /\ cache' = IF store' # store THEN Staled(cache, {"d/"}) ELSE cache
  /\ CallFrame

\* renameFile: CopyObject to the new key
renameFileCopy ==
  /\ call.phase = "copy" /\ call.kind = "rename"
  /\ \/ /\ store' = [store EXCEPT ![call.new] = store[call.old]]
        /\ call' = [call EXCEPT !.phase = "delete", !.log = Append(@, "copy")]
     \/ /\ call' = [call EXCEPT !.phase = "done", !.status = 500]
        /\ store' = store
  /\ cache' = IF store' # store THEN Staled(cache, {"d/"}) ELSE cache
  /\ CallFrame

\* renameFile: DeleteObject of the old key, then the result
renameFileDelete ==
  /\ call.phase = "delete" /\ call.kind = "rename"
  /\ \/ /\ store' = [store EXCEPT ![call.old] = "absent"]
        /\ call' = [call EXCEPT !.phase = "done", !.status = 200,
                                !.log = @ \o <<"delete", "commit">>]
        /\ cache' = Staled(cache, {"d/"})
     \/ /\ call' = [call EXCEPT !.phase = "done", !.status = 500]
        /\ UNCHANGED <<store, cache>>
  /\ CallFrame


\* an error on its way to the client: an HTTPException of the server, or an
\* error of the S3 client with the message the object store has sent
HTTPException(status, message) == [http |-> TRUE, status |-> status, message |-> message]
S3Error(status, message) == [http |-> FALSE, status |-> status, message |-> message]

\* handleFsError: an HTTPException is rethrown, any other error becomes an
\* HTTPException(INTERNAL_ERROR) with error.message || defaultErrorMessage
handleFsError(error, defaultErrorMessage) ==
  IF error.http THEN error
  ELSE HTTPException(500, IF error.message # "" THEN error.message
                          ELSE defaultErrorMessage)

\* the catch of an /api/fs route: createErrorResponse(status, message)
fsRouteCatch(error, defaultErrorMessage) ==
  IF error.http THEN [status |-> error.status, message |-> error.message]
  ELSE [status |-> 500, message |-> IF error.message # "" THEN error.message
                                    ELSE defaultErrorMessage]

\* what the object store can answer to a HeadObject, and to the GetObject
\* with Range bytes=0-0, for a key with the given content
HeadStatuses(v) == (IF v = "absent" THEN {404} ELSE {200}) \cup {403, 405, 500}
GetStatuses(v) == (IF v = "absent" THEN {404} ELSE {200}) \cup {403, 500}

\* the messages of an S3 error: the text of the object store, or none
S3Messages == {"upstream", ""}

\* the call ends with the error that has left getFileInfo, as GET
\* /api/fs/get answers it
StatFailed(c, error) ==
  LET answer == fsRouteCatch(handleFsError(error, "fixed"), "fixed")
  IN [c EXCEPT !.phase = "done", !.status = answer.status,
               !.message = answer.message]

\* getFileInfo: HeadObject; 405 and 403 go on to the GET fallback, 404
\* becomes HTTPException(NOT_FOUND), any other error is thrown as it is
getFileInfoHead ==
  /\ call.phase = "idle"
  /\ \E key \in Keys, webProxy \in BOOLEAN, record \in BOOLEAN :
     \E headStatus \in HeadStatuses(store[key]), message \in S3Messages :
       LET c == [CallIdle EXCEPT !.kind = "stat", !.old = key, !.new = key,
                                 !.content = store[key], !.webProxy = webProxy,
                                 !.record = record, !.head = headStatus]
       IN
       call' = IF headStatus = 200 THEN [c EXCEPT !.phase = "urls"]
               ELSE IF headStatus \in {405, 403} THEN [c EXCEPT !.phase = "get"]
               ELSE IF headStatus = 404
               THEN StatFailed(c, HTTPException(404, "fixed"))
               ELSE StatFailed(c, S3Error(headStatus, message))
  /\ UNCHANGED <<store, cache>>
  /\ CallFrame

\* getFileInfo: the GetObject with Range bytes=0-0, sent from the catch of
\* the HeadObject; its error leaves getFileInfo as it is
getFileInfoGet ==
  /\ call.phase = "get" /\ call.kind = "stat"
  /\ \E getStatus \in GetStatuses(store[call.old]), message \in S3Messages :
       LET c == [call EXCEPT !.get = getStatus]
       IN
       call' = IF getStatus = 200 THEN [c EXCEPT !.phase = "urls"]
               ELSE StatFailed(c, S3Error(getStatus, message))
  /\ UNCHANGED <<store, cache>>
  /\ CallFrame

\* the two URLs of a result: generateProxyUrl twice when the mount has
\* web_proxy and the driver the PROXY capability, with generatePresignedUrl
\* as fallback; generatePresignedUrl twice otherwise; a failure of
\* generatePresignedUrl is logged and the result goes out as it is
Urls(webProxy, hasProxy, proxyOk, previewOk, downloadOk) ==
  LET presigned ==
        IF ~previewOk THEN [preview |-> "none", download |-> "none"]
        ELSE IF ~downloadOk THEN [preview |-> "presigned", download |-> "none"]
        ELSE [preview |-> "presigned", download |-> "presigned"]
  IN IF webProxy /\ hasProxy /\ proxyOk
     THEN [preview |-> "proxy", download |-> "proxy"]
     ELSE presigned

\* getFileInfo: the result and, for a caller with userType and userId
\* (call.record), its preview_url and download_url
getFileInfoUrls ==
  /\ call.phase = "urls" /\ call.kind = "stat"
  /\ \E hasProxy \in BOOLEAN, proxyOk \in BOOLEAN, previewOk \in BOOLEAN,
        downloadOk \in BOOLEAN :
       LET u == IF ~call.record THEN [preview |-> "none", download |-> "none"]
                ELSE Urls(call.webProxy, hasProxy, proxyOk, previewOk, downloadOk)
       IN call' = [call EXCEPT !.phase = "done", !.status = 200,
                               !.preview = u.preview, !.download = u.download]
  /\ UNCHANGED <<store, cache>>
  /\ CallFrame


\* file names, and the Content-Type a client can send with them ("" when
\* it sends none)
Filenames == {"a.txt", "a.html", "a.png", "a"}
ClientTypes == {"", "application/octet-stream", "text/plain", "text/html",
                "text/html; charset=utf-8"}

\* fileUtils.getMimeTypeFromFilename / getMimeType: the type by extension
getMimeTypeFromFilename(filename) ==
  CASE filename = "a.txt" -> "text/plain"
    [] filename = "a.html" -> "text/html"
    [] filename = "a.png" -> "image/png"
    [] OTHER -> "application/octet-stream"

\* contentType.split(";")[0].trim()
stripCharset(contentType) ==
  IF contentType = "text/html; charset=utf-8" THEN "text/html" ELSE contentType

\* the content type handlePut gives the object, by revision
putContentType(imp, header, filename) ==
  LET given == IF header # "" THEN header ELSE "application/octet-stream"
      stripped == stripCharset(given)
  IN CASE imp \in {"js", "p8"} ->
            IF stripped = "application/octet-stream"
            THEN getMimeTypeFromFilename(filename) ELSE stripped
       [] imp = "p7" ->
            IF header # "" THEN header ELSE getMimeTypeFromFilename(filename)
       [] OTHER -> getMimeTypeFromFilename(filename)

\* WebDAV PUT: the ContentType of the PutObject / CreateMultipartUpload
handlePutContentType ==
  /\ call.phase = "idle"
  /\ \E imp \in {"js", "p8", "p6", "p7"}, header \in ClientTypes,
        filename \in Filenames :
       call' = [CallIdle EXCEPT !.kind = "upload-type", !.phase = "done",
                                !.impl = imp, !.header = header,
                                !.filename = filename, !.status = 201,
                                !.type = putContentType(imp, header, filename)]
  /\ UNCHANGED <<store, cache>>
  /\ CallFrame

\* POST /api/fs/presign and POST /api/fs/presign/commit: body.contentType is
\* read and not used; the signed type and the type of the files record are
\* getMimeTypeFromFilename(fileName)
fsPresignContentType ==
  /\ call.phase = "idle"
  /\ \E route \in {"presign", "presign-commit"}, contentType \in ClientTypes,
        fileName \in Filenames :
       LET finalContentType == getMimeTypeFromFilename(fileName)
       IN call' = [CallIdle EXCEPT !.kind = "upload-type", !.phase = "done",
                                   !.impl = route, !.header = contentType,
                                   !.filename = fileName, !.status = 200,
                                   !.type = finalContentType]
  /\ UNCHANGED <<store, cache>>
  /\ CallFrame


\* the administrator's account, and what a client can put into a Basic
\* credential
AdminName == "admin"
AdminPassword == "secret"
Usernames == ApiKeys \cup {AdminName, ""}
Passwords == ApiKeys \cup {AdminPassword, ""}

\* an api_keys row: the mount permission and where expires_at lies
KeyRecords == [mount : BOOLEAN, expires : {"never", "future", "past"}]

AuthFrame ==
  UNCHANGED <<locks, store, mpu, req, pc, h, stream, resp, s3, fsreq, files, cache, entry, up, db, modal>>

\* an administrator creates an API key
createApiKey ==
  /\ call.phase = "idle"
  /\ \E k \in ApiKeys, mount \in BOOLEAN, expires \in {"never", "future"} :
       /\ apiKeys[k] = NoKey
       /\ apiKeys' = [apiKeys EXCEPT ![k] = [mount |-> mount, expires |-> expires]]
  /\ call' = call
  /\ AuthFrame

\* time passes the expires_at of a key
keyExpires ==
  /\ call.phase = "idle"
  /\ \E k \in ApiKeys :
       /\ apiKeys[k].expires = "future"
       /\ apiKeys' = [apiKeys EXCEPT ![k].expires = "past"]
  /\ call' = call
  /\ AuthFrame

\* apiKeyRepository.findByKey
findByKey(keys, key) == IF key \in DOMAIN keys THEN keys[key] ELSE NoKey

\* apiKeyService.checkAndDeleteExpiredApiKey: an expired key is deleted and
\* reported as expired
checkAndDeleteExpiredApiKey(keys, key) ==
  IF keys[key].expires = "past"
  THEN [expired |-> TRUE, keys |-> [keys EXCEPT ![key] = NoKey]]
  ELSE [expired |-> FALSE, keys |-> keys]

\* the outcome of an authentication: the principal and the api_keys table
Unauthenticated(keys) == [result |-> "none", keys |-> keys]

\* validateApiKeyAuth
validateApiKeyAuth(keys, apiKey) ==
  LET keyRecord == findByKey(keys, apiKey)
  IN IF keyRecord = NoKey THEN Unauthenticated(keys)
     ELSE LET check == checkAndDeleteExpiredApiKey(keys, apiKey)
          IN IF check.expired THEN Unauthenticated(check.keys)
             ELSE [result |-> apiKey, keys |-> keys]

\* validateBasicAuth: the administrator by name and password first, then the
\* API key given as user name and as password
validateBasicAuth(keys, username, password) ==
  LET keyRecord == findByKey(keys, username)
      hasMountPermission == keyRecord.mount
  IN IF username = "" \/ password = "" THEN Unauthenticated(keys)
     ELSE IF username = AdminName /\ password = AdminPassword
     THEN [result |-> "admin", keys |-> keys]
     ELSE IF keyRecord = NoKey THEN Unauthenticated(keys)
     ELSE IF ~hasMountPermission THEN Unauthenticated(keys)
     ELSE IF username # password THEN Unauthenticated(keys)
     ELSE LET check == checkAndDeleteExpiredApiKey(keys, username)
          IN IF check.expired THEN Unauthenticated(check.keys)
             ELSE [result |-> username, keys |-> keys]

\* authenticate: an Authorization header "ApiKey <key>"
authenticateApiKey ==
  /\ call.phase = "idle"
  /\ \E apiKey \in ApiKeys :
       LET r == validateApiKeyAuth(apiKeys, apiKey)
       IN /\ apiKeys' = r.keys
          /\ call' = [CallIdle EXCEPT !.kind = "auth", !.phase = "done",
                        !.auth = [form |-> "apikey", username |-> apiKey,
                                  password |-> apiKey,
                                  keyRecord |-> findByKey(apiKeys, apiKey),
                                  result |-> r.result]]
  /\ AuthFrame

\* authenticate: an Authorization header "Basic base64(username:password)"
authenticateBasic ==
  /\ call.phase = "idle"
  /\ \E username \in Usernames, password \in Passwords :
       LET r == validateBasicAuth(apiKeys, username, password)
       IN /\ apiKeys' = r.keys
          /\ call' = [CallIdle EXCEPT !.kind = "auth", !.phase = "done",
                        !.auth = [form |-> "basic", username |-> username,
                                  password |-> password,
                                  keyRecord |-> findByKey(apiKeys, username),
                                  result |-> r.result]]
  /\ AuthFrame

\* POST /api/url/commit is called for a file whose record prepare has
\* created and whose object the client has put through the presigned URL
urlUploaded ==
  /\ call.phase = "idle"
  /\ \E limited \in BOOLEAN, usage \in {0, 40}, size \in {0, 60, 61, 70} :
       call' = [CallIdle EXCEPT !.kind = "url-commit", !.phase = "commit",
                                !.old = "d/x", !.new = "d/x",
                                !.limited = limited, !.limit = 100,
                                !.usage = usage, !.size = size, !.record = TRUE]
  /\ store' = [store EXCEPT !["d/x"] = "data"]
  /\ cache' = Staled(cache, {"d/"})
  /\ CallFrame

\* POST /api/url/commit: the capacity check, then the update of the file
\* record, the parents' modification time and the cache
urlCommit ==
  /\ call.phase = "commit" /\ call.kind = "url-commit"
  /\ LET currentUsage == call.usage
         fileSize == call.size
         totalAfterCommit == currentUsage + fileSize
     IN
     IF call.limited /\ totalAfterCommit > call.limit
     THEN \E deleted \in BOOLEAN, recordDeleted \in BOOLEAN :
            /\ store' = IF deleted THEN [store EXCEPT ![call.old] = "absent"] ELSE store
            /\ call' = [call EXCEPT !.phase = "done", !.record = ~recordDeleted,
                                    !.status = IF recordDeleted THEN 400 ELSE 500,
                                    !.log = IF deleted THEN <<"delete">> ELSE <<>>]
            /\ cache' = cache
     ELSE \E touched \in BOOLEAN, cleared \in BOOLEAN :
            /\ store' = store
            /\ call' = [call EXCEPT !.phase = "done",
                                    !.status = IF cleared THEN 200 ELSE 500,
                                    !.log = (IF touched THEN <<"mtime">> ELSE <<>>)
                                            \o clearDirectoryCache(cleared)]
            /\ cache' = IF cleared THEN clearCache(cache) ELSE cache
  /\ CallFrame

\* urlUploadService.abortMultipartUpload / handleAbortMultipartUpload:
\* AbortMultipartUpload is issued and the result is a success whatever
\* its outcome
abortMultipartUpload(abortOk) == [issued |-> TRUE, thrown |-> FALSE]

\* an abort route that reports the failure of AbortMultipartUpload
urlMultipartAbort_ReportFailure ==
  /\ call.phase = "idle"
  /\ \E found \in BOOLEAN, abortOk \in BOOLEAN, route \in {"url-abort", "fs-abort"} :
       LET c == [CallIdle EXCEPT !.kind = route, !.phase = "done", !.abortOk = abortOk,
                                 !.record = found]
           r == abortMultipartUpload(abortOk)
       IN
       call' = IF ~found THEN [c EXCEPT !.status = 404]
               ELSE IF r.thrown \/ ~abortOk
               THEN [c EXCEPT !.status = 500, !.log = IF r.issued THEN <<"abort">> ELSE <<>>]
               ELSE [c EXCEPT !.status = 200, !.log = IF r.issued THEN <<"abort">> ELSE <<>>]
  /\ UNCHANGED <<store, cache>>
  /\ CallFrame

\* POST /api/url/multipart/abort and POST /api/fs/multipart/abort: the
\* file record is looked up, the abort is handed to the service, and only
\* an exception becomes an error status
urlMultipartAbort ==
  /\ call.phase = "idle"
  /\ \E found \in BOOLEAN, abortOk \in BOOLEAN, route \in {"url-abort", "fs-abort"} :
       LET c == [CallIdle EXCEPT !.kind = route, !.phase = "done", !.abortOk = abortOk,
                                 !.record = found]
           r == abortMultipartUpload(abortOk)
       IN
       call' = IF ~found THEN [c EXCEPT !.status = 404]
               ELSE IF r.thrown
               THEN [c EXCEPT !.status = 500, !.log = IF r.issued THEN <<"abort">> ELSE <<>>]
               ELSE [c EXCEPT !.status = 200, !.log = IF r.issued THEN <<"abort">> ELSE <<>>]
  /\ UNCHANGED <<store, cache>>
  /\ CallFrame

\* the process stops in the middle of a call
Crash ==
  /\ call.phase \in {"copy", "delete"}
  /\ call' = [call EXCEPT !.phase = "crashed"]
  /\ UNCHANGED <<store, cache>>
  /\ CallFrame

\* the call has returned (or the process has been restarted)
CallFinish ==
  /\ call.phase \in {"done", "crashed"}
  /\ call' = CallIdle
  /\ UNCHANGED <<store, cache>>
  /\ CallFrame

NextOps ==
  \/ updateFile
  \/ renameFile
  \/ renameFileCopy
  \/ renameFileDelete
  \/ urlUploaded
  \/ urlCommit
  \/ urlMultipartAbort
  \/ Crash
  \/ CallFinish
  \/ List
  \/ Expire

SpecOps == Init /\ [][NextOps]_vars

-----------------------------------------------------------------------------
(* Properties *)

\* the handler has answered (or returned / thrown to its caller)
Done == pc = "done"

C8_RetryThenAbort ==
  /\ h.attempt <= 3
  /\ s3.tries <= 3
  /\ \A i \in 1..Len(h.delays) : h.delays[i] = 1000 * Pow2(i - 1)
  /\ Len(h.delays) = h.attempt - 1
  /\ s3.tries = 3 => /\ pc \in {"abort", "done"}
                     /\ Done => (h.result = "err" /\ resp # 201 /\ s3.abort >= 1
                                 /\ s3.complete = <<>>)

\* the second part failed three times after waits of 1000 and 2000 ms and
\* the request ended as an error with the session aborted
C8_Witness ==
  /\ Done /\ s3.tries = 3 /\ h.delays = <<1000, 2000>>
  /\ Len(s3.parts) = 1
  /\ h.result = "err" /\ mpu = "aborted"

\* exclusive locks that cover path p
Held(p) == {l \in locks : l.scope = "exclusive" /\ Covers(l, p)}

\* the request's If header carries the token of every lock on its path
HasToken == \A l \in Held(req.path) : req.ifToken = l.token

\* the step writes to the object store or issues an upload call
WriteStep ==
  \/ store' # store
  \/ s3'.create # s3.create
  \/ s3'.parts # s3.parts
  \/ s3'.puts # s3.puts
  \/ s3'.complete # s3.complete
  \/ s3'.sdk # s3.sdk

\* the handler is at work on a request
Serving == pc \notin {"idle", "done"}

\* C2: while an exclusive lock covers the request's path (the path itself or
\* an ancestor locked with depth infinity), a request without the lock's
\* token in If writes nothing and does not succeed, a PUT without it that
\* is well-formed is answered 423, and a PUT with the token is not refused
\* as locked
C2_LockedPathNeedsToken ==
  [][(Serving /\ Held(req.path) # {}) =>
       IF HasToken
       THEN (pc' = "done" /\ req.impl # "mkcol") => resp' # 423
       ELSE /\ ~WriteStep
            /\ pc' = "done" => h'.result # "ok"
            /\ (pc' = "done" /\ req.impl # "mkcol") => resp' \in {400, 423}]_vars

\* C3: when an API-key principal asks for a path outside its basicPath,
\* the request is answered 403 and reaches neither storage nor metadata,
\* and no row of the files table made by an API key lies outside its
\* basicPath
C3_OutsidePrefixForbidden ==
  /\ (fsreq.phase = "done" /\ ~fsreq.userInfo.hasFullAccess
        /\ \E i \in 1..Len(fsreq.paths) :
             ~IsPrefix(fsreq.userInfo.basicPath, fsreq.paths[i]))
       => (fsreq.status = 403 /\ fsreq.touched = {})
  /\ \A f \in files :
       f.createdBy.hasFullAccess \/ IsPrefix(f.createdBy.basicPath, f.path)

\* C4: a handler writes only after it has consulted the lock table, and
\* never when the centralised check (path, If header, method) reports a
\* conflict
C4_CheckBeforeWrite ==
  [][(Serving /\ WriteStep) =>
       (h.consulted /\ checkLockPermission(locks, req.path, req.ifToken, "PUT") = 0)]_vars

\* C5: a PUT with Transfer-Encoding: chunked and no Content-Length that
\* succeeds was served by the streaming multipart path, whatever the size
\* of its body
C5_ChunkedStreams ==
  (Done /\ req.impl \in {"p6", "p7", "p8"}
        /\ req.chunked /\ req.cl = NoCL /\ req.hasBody /\ h.result = "ok")
    => h.route = "multipart"

\* C6: a PUT with Content-Length: 0 whose upload call does not fail creates
\* a zero-byte object with one direct PutObject and opens no multipart
\* session
C6_EmptyDirect ==
  (Done /\ req.impl \in {"js", "p6", "p7", "p8"} /\ req.cl = 0
        /\ ~(h.result = "err" /\ h.route # "nobody"))
    => /\ s3.puts = <<0>>
       /\ s3.create = 0
       /\ store["d/x"] = "empty"
       /\ resp = 201

\* bytes the chunker has read from the body stream
Seen == stream.read - h.start

\* C7: CompleteMultipartUpload is never called with an empty part list, and
\* a streaming upload that saw EOF with zero bytes and succeeded has
\* aborted the session and stored the object with one empty PutObject
C7_ZeroByteFallback ==
  /\ \A i \in 1..Len(s3.complete) : s3.complete[i] # <<>>
  /\ (Done /\ h.uploadId /\ h.eof /\ Seen = 0 /\ h.result = "ok")
       => (s3.abort >= 1 /\ s3.puts = <<0>> /\ s3.complete = <<>>)

\* sizes of the parts sent upstream, by the handler or by Upload
UploadedSizes ==
  IF s3.sdk # <<>> THEN s3.sdk ELSE [i \in 1..Len(s3.parts) |-> s3.parts[i].size]

\* every part but the last has exactly `ps` bytes, the last at most `ps`
CutBy(ps) ==
  \A i \in 1..Len(UploadedSizes) :
    /\ UploadedSizes[i] >= 1
    /\ UploadedSizes[i] <= ps
    /\ (i < Len(UploadedSizes) => UploadedSizes[i] = ps)

\* a 42 MiB body was uploaded through the multipart path
Uploaded42 ==
  Done /\ h.result = "ok" /\ h.route = "multipart" /\ stream.read = 42

RECURSIVE SumSizes(_)
SumSizes(ps) == IF ps = <<>> THEN 0 ELSE Head(ps).size + SumSizes(Tail(ps))

\* C10: CompleteMultipartUpload is called at most once, its list names each
\* uploaded part once with the numbers 1..N in ascending order, and it is
\* called once the stream has ended with a non-zero total and every part
\* has been uploaded
C10_CompleteOnce ==
  /\ Len(s3.complete) <= 1
  /\ \A i \in 1..Len(s3.parts) : s3.parts[i].partNumber = i
  /\ \A i \in 1..Len(s3.complete) :
       s3.complete[i] = [j \in 1..Len(s3.parts) |-> j]
  /\ (Done /\ h.uploadId /\ h.eof /\ Seen > 0 /\ SumSizes(s3.parts) = Seen)
       => Len(s3.complete) = 1

\* an 11 MiB body ended in one completion naming parts 1, 2, 3
C10_Witness ==
  /\ Done /\ h.result = "ok" /\ h.eof /\ Seen = 11
  /\ s3.complete = << <<1, 2, 3>> >>
  /\ Len(s3.parts) = 3

\* the bytes of a submitted part, named by their offsets in the request body
PartBytes(p) == [i \in 1..p.size |-> p.off + i]

RECURSIVE Assembled(_)
Assembled(ps) == IF ps = <<>> THEN <<>> ELSE PartBytes(Head(ps)) \o Assembled(Tail(ps))

\* the bytes taken from the request body so far, in order
BodyRead == [i \in 1..stream.read |-> i]

\* a multipart session of this request was completed by the handler
Completed == Done /\ mpu = "completed" /\ Len(s3.complete) = 1

\* C11: when a server-side multipart upload has been completed, the
\* submitted parts concatenated in part-number order are exactly the bytes
\* read from the request body, and so their sizes add up to the object's size
C11_PartsAreTheBody ==
  Completed => (Assembled(s3.parts) = BodyRead /\ SumSizes(s3.parts) = stream.read)

\* the same for an upload whose chunker was the first reader of the stream
C11_FirstReader ==
  (Completed /\ h.start = 0) => Assembled(s3.parts) = BodyRead

\* C12: once a mutation has committed and its request has been answered,
\* no listing of a directory it changed is answered from a cache entry
\* that was filled before the mutation
C12_ListingReflectsMutation ==
  (pc \in {"done", "idle"}) => \A k \in Dirs : cache[k] # "stale"

\* a WebDAV handler has answered a mutating request with success
Mutated == Done /\ h.result = "ok" /\ req.impl \in {"js", "p8", "p6", "p7", "mkcol"}

\* position of the first occurrence of a step in the log (0: absent)
StepAt(log, step) ==
  IF \E i \in 1..Len(log) : log[i] = step
  THEN CHOOSE i \in 1..Len(log) : log[i] = step /\ \A j \in 1..(i - 1) : log[j] # step
  ELSE 0

\* C13: a mutation performs three steps in this order: the S3 mutation
\* commits, the ancestors' modification times are updated, the cache
\* entries are invalidated; the invalidation never precedes the other two
C13_CommitMtimeInvalidate ==
  /\ StepAt(s3.log, "invalidate") # 0
       => /\ StepAt(s3.log, "commit") # 0
          /\ StepAt(s3.log, "commit") < StepAt(s3.log, "invalidate")
          /\ StepAt(s3.log, "mtime") # 0
          /\ StepAt(s3.log, "mtime") < StepAt(s3.log, "invalidate")
  /\ StepAt(s3.log, "mtime") # 0
       => /\ StepAt(s3.log, "commit") # 0
          /\ StepAt(s3.log, "commit") < StepAt(s3.log, "mtime")
  /\ Mutated => s3.log = <<"commit", "mtime", "invalidate">>

\* the invalidation never comes before the commit (the part of C13 that
\* does not involve the modification times)
C13_InvalidateAfterCommit ==
  StepAt(s3.log, "invalidate") # 0
    => (StepAt(s3.log, "commit") # 0 /\ StepAt(s3.log, "commit") < StepAt(s3.log, "invalidate"))

\* C14: after a successful upload or mkdir the modification time of every
\* directory from the root down to the target's parent has been updated
C14_AncestorsTouched ==
  Mutated => StepAt(s3.log, "mtime") # 0

\* /api/url/commit has answered a request that exceeds the capacity limit
OverCapacity ==
  /\ call.kind = "url-commit" /\ call.phase = "done"
  /\ call.limited /\ call.usage + call.size > call.limit

\* C15: an upload with currentUsage + newSize > totalCapacityBytes is
\* rejected with status 507
C15_CapacityExhausted507 ==
  OverCapacity => call.status = 507

\* the rejection itself (with whatever status) does happen
C15_Rejected ==
  OverCapacity => call.status \in {400, 500}

\* C16: after an upload has been rejected for exceeding the capacity limit
\* its object is not in the bucket and its file record is gone
C16_NothingLeftAfterRejection ==
  (OverCapacity /\ call.status = 400)
    => (store[call.old] = "absent" /\ ~call.record)

Renaming ==
  /\ call.kind = "rename" /\ call.phase # "idle"
  /\ call.content # "absent" /\ ~call.existed

\* C18: during rename the content is at the source or at the target at
\* every moment, the source is gone only after the copy has succeeded, and
\* a rename that stopped before its end has left the source in place
C18_SourceKeptUntilCopied ==
  Renaming =>
    /\ store[call.old] = call.content \/ store[call.new] = call.content
    /\ store[call.old] # call.content
         => (StepAt(call.log, "copy") # 0 /\ store[call.new] = call.content)
    /\ call.status # 200 => store[call.old] = call.content

\* a rename that stopped between the copy and the delete
C18_Witness ==
  /\ Renaming /\ call.phase = "crashed" /\ call.log = <<"copy">>
  /\ store[call.old] = call.content /\ store[call.new] = call.content

\* C19: a rename whose target exists fails with conflict and performs
\* neither the copy nor the delete: the bucket is as it was
C19_RenameConflict ==
  [][(call.phase = "idle" /\ call'.kind = "rename"
        /\ store[call'.old] # "absent" /\ store[call'.new] # "absent")
       => (call'.phase = "done" /\ call'.status = 409 /\ call'.log = <<>>
             /\ store' = store)]_vars

\* a rename onto an existing key has been refused
C19_Witness ==
  /\ call.kind = "rename" /\ call.phase = "done" /\ call.old # call.new
  /\ call.existed /\ call.content # "absent" /\ call.status = 409
  /\ store[call.old] = call.content /\ store[call.new] # "absent"

\* C20: after a successful MKCOL the marker is a zero-length object under
\* a key ending in "/" with content-type application/x-directory, and a
\* stat of the path reports a directory of size 0
C20_MarkerIsDirectory ==
  (Done /\ req.impl = "mkcol" /\ resp = 201)
    => /\ store["d/"] \in {"dir", "marker"}
       /\ ContentLength(store["d/"]) = 0
       /\ ContentType(store["d/"]) = "application/x-directory"
       /\ getFileInfo(store, "d/") =
            [isDirectory |-> TRUE, size |-> 0, mimetype |-> "application/x-directory"]

\* the parts of C20 that do not depend on the content-type
C20_MarkerIsEmpty ==
  (Done /\ req.impl = "mkcol" /\ resp = 201)
    => (store["d/"] \in {"dir", "marker"} /\ getFileInfo(store, "d/").size = 0)


-----------------------------------------------------------------------------
(* stat: GET /api/fs/get down to S3FileOperations.getFileInfo *)

NextStat ==
  \/ updateFile
  \/ getFileInfoHead
  \/ getFileInfoGet
  \/ getFileInfoUrls
  \/ CallFinish

SpecStat == Init /\ [][NextStat]_vars


-----------------------------------------------------------------------------
(* The content type of an uploaded object *)

NextType ==
  \/ handlePutContentType
  \/ fsPresignContentType
  \/ CallFinish

SpecType == Init /\ [][NextType]_vars


-----------------------------------------------------------------------------
(* Authentication *)

NextAuth ==
  \/ createApiKey
  \/ keyExpires
  \/ authenticateApiKey
  \/ authenticateBasic
  \/ CallFinish

SpecAuth == Init /\ [][NextAuth]_vars


-----------------------------------------------------------------------------
(* The entry points *)

NextEntry ==
  \/ fetch
  \/ dockerRequest
  \/ checkAndInitDatabase
  \/ entryDone

SpecEntry == Init /\ [][NextEntry]_vars


-----------------------------------------------------------------------------
(* The client's multipart upload *)

NextClient ==
  \/ performMultipartUpload
  \/ uploadPartStep
  \/ completeUpload
  \/ catchError
  \/ abortUpload
  \/ uploadReturned

SpecClient == Init /\ [][NextClient]_vars


-----------------------------------------------------------------------------
(* The capacity of a storage configuration *)

NextDb ==
  \/ urlPresign
  \/ urlCommitCheck
  \/ urlCommitUpdate
  \/ fsPresignCommitRecord
  \/ deleteById

SpecDb == Init /\ [][NextDb]_vars


-----------------------------------------------------------------------------
(* The upload dialog *)

NextModal ==
  \/ submitUpload
  \/ submitUploadResume
  \/ retryUpload
  \/ retryUploadResume
  \/ cancelSingleUpload
  \/ cancelUpload
  \/ modalReset

SpecModal == Init /\ [][NextModal]_vars

-----------------------------------------------------------------------------
(* MKCOL *)

\* a MKCOL request is about to be handled
MkcolReceived == pc = "recv" /\ req.impl = "mkcol"

\* C21: a MKCOL without body on a collection that exists is answered 405,
\* every time it is repeated, and writes nothing: the bucket, the calls made
\* to it and the listing cache are as before the request
C21_MkcolExisting405 ==
  [][(MkcolReceived /\ stream.left = 0 /\ checkDirectoryExists(store))
       => (pc' = "done" /\ resp' = 405 /\ store' = store /\ s3' = s3
           /\ cache' = cache)]_vars

\* C21: the MKCOL of a collection that an earlier MKCOL has created
C21_Repeated ==
  Done /\ req.impl = "mkcol" /\ resp = 405 /\ store["d/"] = "marker"

C22_Created ==
  Done /\ req.impl = "mkcol" /\ resp = 201 /\ store["d/"] = "marker"

-----------------------------------------------------------------------------
(* stat *)

\* a stat has been answered
Stated == call.kind = "stat" /\ call.phase = "done"

\* C23: a stat during which the object store has answered 404, to the
\* HeadObject or to the GetObject of the fallback, fails with 404
C23_StatNotFound ==
  (Stated /\ (call.head = 404 \/ call.get = 404)) => call.status = 404

\* C23: a 404 to the HeadObject is answered 404
C23_HeadNotFound ==
  (Stated /\ call.head = 404) => call.status = 404

\* C25: no answer carries the text of an error of the object store; an
\* unexpected failure is answered with a fixed message and an errorId
C25_NoUpstreamText ==
  Stated => (call.message # "upstream" /\ (call.status = 500 => call.errorId))

\* C25: the 404 of a stat carries the message the server has written
C25_NotFoundMessage ==
  (Stated /\ call.status = 404) => call.message = "fixed"

\* C29: the two URLs of a stat result are proxy URLs when the mount has
\* webProxy and presigned URLs otherwise
C29_UrlKindByWebProxy ==
  (Stated /\ call.status = 200 /\ call.record)
    => IF call.webProxy
       THEN call.preview = "proxy" /\ call.download = "proxy"
       ELSE call.preview = "presigned" /\ call.download = "presigned"

\* C29: a proxy URL is handed out only for a webProxy mount, and then for
\* preview and download together
C29_ProxyOnlyForWebProxy ==
  (Stated /\ (call.preview = "proxy" \/ call.download = "proxy"))
    => (call.webProxy /\ call.preview = "proxy" /\ call.download = "proxy")

-----------------------------------------------------------------------------
(* batch-remove *)

-----------------------------------------------------------------------------
(* content type *)

\* C26: the content type of an uploaded object is the one inferred from its
\* file name, whatever Content-Type or contentType the client has sent
C26_TypeFromFilename ==
  (call.kind = "upload-type" /\ call.phase = "done")
    => call.type = getMimeTypeFromFilename(call.filename)

\* C26: the presign routes and the handlePut of part_006 use the inferred
\* type
C26_PresignTypeFromFilename ==
  (call.kind = "upload-type" /\ call.phase = "done"
     /\ call.impl \in {"presign", "presign-commit", "p6"})
    => call.type = getMimeTypeFromFilename(call.filename)

-----------------------------------------------------------------------------
(* authentication *)

\* an authentication has been answered
Authenticated == call.kind = "auth" /\ call.phase = "done"

\* the credential presents an existing API key: as the ApiKey token, or as
\* user name and password of a Basic credential
PresentsKey ==
  /\ Authenticated
  /\ call.auth.keyRecord # NoKey
  /\ call.auth.username = call.auth.password

\* C27: a request that presents an API key whose expiresAt is past is
\* refused and the key is gone from the api_keys table, in the ApiKey form
\* and in the Basic form
C27_ExpiredKeyRefusedAndDeleted ==
  (PresentsKey /\ call.auth.keyRecord.expires = "past")
    => (call.auth.result = "none" /\ apiKeys[call.auth.username] = NoKey)

\* C27: an expired key never authenticates, and presented in the ApiKey form
\* it is deleted
C27_ExpiredKeyRefused ==
  (PresentsKey /\ call.auth.keyRecord.expires = "past")
    => /\ call.auth.result = "none"
       /\ call.auth.form = "apikey" => apiKeys[call.auth.username] = NoKey

\* C28: a Basic credential authenticates as the API key it carries as user
\* name and password when that key exists and is not expired, as admin when
\* it carries the administrator's name and password, and not at all
\* otherwise
C28_BasicPrincipal ==
  (Authenticated /\ call.auth.form = "basic")
    => call.auth.result =
         (IF call.auth.username = AdminName /\ call.auth.password = AdminPassword
          THEN "admin"
          ELSE IF PresentsKey /\ call.auth.keyRecord.expires # "past"
          THEN call.auth.username
          ELSE "none")

\* C28: the same for the keys that have the mount permission; a key without
\* it does not authenticate
C28_BasicPrincipalWithMount ==
  (Authenticated /\ call.auth.form = "basic")
    => call.auth.result =
         (IF call.auth.username = AdminName /\ call.auth.password = AdminPassword
          THEN "admin"
          ELSE IF PresentsKey /\ call.auth.keyRecord.expires # "past"
                  /\ call.auth.keyRecord.mount
          THEN call.auth.username
          ELSE "none")

-----------------------------------------------------------------------------
(* memory *)

\* the largest declared length the direct mode may buffer
DirectThreshold == MULTIPART_THRESHOLD

\* C30: the handler holds more of the body than queueDepth x partSize (and
\* the chunk in flight) only in direct mode with a declared Content-Length
\* of at most directThreshold
C30_BoundedBuffering ==
  \/ Resident <= MemoryBound(req.impl) + MaxChunk
  \/ h.mode = "direct" /\ req.cl # NoCL /\ req.cl <= DirectThreshold

\* C30: the handlers that read the body chunk by chunk hold less than a
\* part and a chunk
C30_StreamingBounded ==
  req.impl \in {"p8", "mmu"} => Resident < h.partSize + MaxChunk

-----------------------------------------------------------------------------
(* entry points *)

\* C31: an OPTIONS request to a /dav path is answered 204 with DAV: 1,2,
\* MS-Author-Via: DAV and the list of the WebDAV methods in Allow, by the
\* Workers entry point and by the Express server
C31_OptionsAdvertisesDav ==
  \A i \in ReqIds :
    LET r == entry.reqs[i]
    IN (r.phase \in {"answered", "dispatched"} /\ r.method = "OPTIONS" /\ r.dav)
         => /\ r.phase = "answered" /\ r.status = 204
            /\ {<<"DAV", "1,2">>, <<"MS-Author-Via", "DAV">>,
                <<"Allow", WEBDAV_METHODS>>} \subseteq r.headers

\* C31: the same for the Workers entry point alone, and 204 for both
C31_WorkersOptions ==
  \A i \in ReqIds :
    LET r == entry.reqs[i]
    IN (r.phase \in {"answered", "dispatched"} /\ r.method = "OPTIONS" /\ r.dav)
         => /\ r.phase = "answered" /\ r.status = 204
            /\ r.runtime = "workers"
                 => {<<"DAV", "1,2">>, <<"MS-Author-Via", "DAV">>,
                     <<"Allow", WEBDAV_METHODS>>} \subseteq r.headers

\* C38: a request is handed to the application only after the database
\* initialisation has finished, and the initialisation is started once
C38_InitBeforeDispatch ==
  /\ \A rt \in Runtimes : entry.inits[rt] <= 1
  /\ \A i \in ReqIds :
       entry.reqs[i].phase = "dispatched" => entry.reqs[i].initAt \in {"done", "failed"}

\* C38: the initialisation is started at most once per process
C38_InitOnce ==
  \A rt \in Runtimes : entry.inits[rt] <= 1

-----------------------------------------------------------------------------
(* client multipart upload *)

\* C32: when the routine returns, the session that initUpload created is
\* closed: completed, with every part 1..N uploaded, or aborted
C32_SessionTerminated ==
  (up.phase = "returned" /\ up.session # "none")
    => \/ up.session = "completed" /\ up.parts = 1..up.totalParts
       \/ up.session = "aborted"

\* C32 (as the code has it): a session whose uploadId the routine received
\* is completed only with every part 1..N uploaded and, on every other
\* return, has been sent an abort request; it is still open at the return
\* only if the last abort request failed
C32_SessionCompletedOrAbortSent ==
  /\ up.session = "completed" => up.parts = 1..up.totalParts /\ up.totalParts > 0
  /\ (up.phase = "returned" /\ up.uploadId)
       => \/ up.result = "ok" /\ up.session = "completed" /\ up.aborts = 0
          \/ up.result = "thrown" /\ up.aborts >= 1
                /\ (up.session = "open" => ~up.abortOk)

\* C32: the routine has returned after a part failed and the session was aborted
C32_AbortedAfterPartFailure ==
  /\ up.phase = "returned" /\ up.result = "thrown" /\ ~up.cancelled
  /\ up.session = "aborted" /\ up.parts # {} /\ up.parts # 1..up.totalParts

\* C36: no session is sent more than one abort request, and none after
\* its completion succeeded
C36_AbortAtMostOnce ==
  up.aborts <= 1 /\ ~up.abortAfterComplete

\* C36: a session that was completed is never sent an abort request by a
\* routine that saw the completion succeed
C36_NoAbortAfterSeenComplete ==
  up.result = "ok" => up.aborts = 0

-----------------------------------------------------------------------------
(* capacity *)

RECURSIVE CommittedSize(_, _)
CommittedSize(ids, vias) ==
  IF ids = {} THEN 0
  ELSE LET i == CHOOSE x \in ids : TRUE
           r == db.records[i]
       IN (IF r.exists /\ r.committed /\ r.via \in vias THEN r.size ELSE 0)
            + CommittedSize(ids \ {i}, vias)

\* C33: the sizes of the committed records of a configuration with a
\* capacity limit never add up to more than total_storage_bytes
C33_WithinCapacity ==
  CommittedSize(FileIds, {"url", "presign"}) <= total_storage_bytes

\* C33: the same for the records committed through /api/url/commit alone
C33_UrlCommitsWithinCapacity ==
  CommittedSize(FileIds, {"url"}) <= total_storage_bytes

-----------------------------------------------------------------------------
(* the fallback of managedMultipartUpload *)

\* C34: when the streaming attempt of managedMultipartUpload failed after
\* taking bytes from the body, the buffered fallback does not end in
\* success with an object that lacks those bytes
C34_FallbackKeepsConsumedBytes ==
  (Done /\ req.impl = "mmu" /\ h.route = "buffered" /\ h.start > 0 /\ h.result = "ok")
    => \A b \in 1..h.start : b \in Range(Assembled(s3.parts))

\* C34: a fallback that found the stream still held by the failed attempt
\* ends in failure with the session aborted
C34_HeldStreamAborts ==
  (Done /\ req.impl = "mmu" /\ h.route = "buffered" /\ stream.locked)
    => (h.result = "err" /\ s3.abort >= 1 /\ mpu # "completed")

-----------------------------------------------------------------------------
(* the answer to a PUT *)

\* C35: a PUT of put.js or of part_008 that has stored the object is
\* answered 201; no successful upload ends without a response
C35_StoredAnswers201 ==
  (Done /\ req.impl \in {"js", "p8"} /\ h.result = "ok") => resp = 201

\* C35: the same for the streaming handler of part_008 alone
C35_StreamingAnswers201 ==
  (Done /\ req.impl = "p8" /\ h.result = "ok") => resp = 201

\* the length of the body the client sent
ReceivedLength == stream.read + stream.left

\* C37: a PUT whose body is not as long as its positive Content-Length
\* says is not answered 201 and does not succeed
C37_SizeMismatchRejected ==
  (Done /\ req.impl \in {"js", "p6", "p7", "p8"}
        /\ req.cl # NoCL /\ req.cl > 0 /\ ReceivedLength # req.cl)
    => (resp # 201 /\ h.result # "ok")

\* C39: the total the streaming chunker reports after the end of the
\* stream, which is passed on as the size of the object, is the number of
\* bytes read from the body
C39_TotalIsBytesRead ==
  (Done /\ req.impl \in {"p8", "p6"} /\ h.route \in {"multipart", "sdk"}
        /\ h.eof /\ h.result = "ok")
    => h.totalProcessed = stream.read

\* C39: the parts the chunker of part_008 uploaded add up to the bytes read
C39_PartsAddUp ==
  (Done /\ req.impl = "p8" /\ h.route = "multipart" /\ h.eof /\ h.result = "ok")
    => SumSizes(s3.parts) = stream.read

-----------------------------------------------------------------------------
(* upload dialog *)

RunningLoops == {l \in Loops : modal.loops[l].kind # "none"}
UploadingItems == {i \in Items : modal.status[i] = "uploading"}

\* C40: at any time at most one upload loop of the dialog is running and
\* at most one file item has the status uploading
C40_OneLoopOneUploading ==
  Cardinality(RunningLoops) <= 1 /\ Cardinality(UploadingItems) <= 1

\* C40: at most one file item has the status uploading
C40_OneUploading ==
  Cardinality(UploadingItems) <= 1
====
